---- MODULE Spec2Model ----
(***************************************************************************)
(* A model of zephyr-microui: the input hand-off between the input         *)
(* callback and the tick (zmu input.c), the tick itself (mu_handle_tick,   *)
(* mu_needs_redraw, mu_render), the work-queue event loop, and the         *)
(* immediate-mode animation engine (animation.c).                          *)
(*                                                                         *)
(* Numbers: TLC's integers are 32-bit signed, so an unsigned 32-bit value  *)
(* (a hash, the millisecond clock) is a pair <<hi, lo>> of 16-bit limbs.   *)
(***************************************************************************)
EXTENDS Integers, Sequences, FiniteSets, TLC

(***************************************************************************)
(* Bounds of the model.                                                    *)
(***************************************************************************)
\* input events delivered to input_callback in one behaviour
MaxEvents == 2
\* calls of mu_handle_tick in one behaviour
MaxTicks == 3
\* root containers of a frame and commands per container
MaxContainers == 3
MaxCommands == 2
\* depth of the id stack
MaxIdStack == 1
\* cells of a layout row
MaxItems == 3
\* largest coordinate an input event carries
MaxCoord == 1
MaxAnimCalls == 3
MaxFrames == 3

(***************************************************************************)
(* Unsigned 32-bit arithmetic on limbs.                                    *)
(***************************************************************************)
Limb == 256 * 256

U32(hi, lo) == <<hi, lo>>

Add32(a, b) ==
  LET lo == a[2] + b[2]
      hi == a[1] + b[1] + (lo \div Limb)
  IN  <<hi % Limb, lo % Limb>>

\* a - b modulo 2^32, as C computes it for uint32_t
Sub32(a, b) ==
  LET lo == a[2] - b[2]
      borrow == IF lo < 0 THEN 1 ELSE 0
      hi == a[1] - b[1] - borrow
  IN  <<(hi + Limb) % Limb, (lo + Limb) % Limb>>

\* a < n for a small natural n (n < 2^16)
Less32(a, n) == a[1] = 0 /\ a[2] < n

RECURSIVE Xor8(_, _, _)
Xor8(a, b, bits) ==
  IF bits = 0 THEN 0
  ELSE (((a % 2) + (b % 2)) % 2) + 2 * Xor8(a \div 2, b \div 2, bits - 1)

(***************************************************************************)
(* The hash of mu_get_id: FNV-1a, one byte at a time,                      *)
(*   hash = (hash ^ byte) * 16777619   (mod 2^32),  16777619 = 2^24 + 403. *)
(***************************************************************************)
HASH_INITIAL == U32(33052, 40389)    \* 2166136261

FnvStep(h, byte) ==
  LET lo   == (h[2] \div 256) * 256 + Xor8(h[2] % 256, byte, 8)
      m    == lo * 403
      hsum == h[1] * 403 + (m \div Limb) + (lo % 256) * 256
  IN  <<hsum % Limb, m % Limb>>

\* the hash after each prefix of the bytes, from the seed
FnvFold(seed, bytes) ==
  LET f[i \in 0..Len(bytes)] ==
        IF i = 0 THEN seed
        ELSE LET p == f[i - 1] IN IF p = p THEN FnvStep(p, bytes[i]) ELSE p
  IN  f[Len(bytes)]

\* mu_get_id with an empty id stack (the state after mu_end) over the bytes
\* of a command list: the fold runs on through the commands in list order
mu_get_id(cmds) ==
  LET g[k \in 0..Len(cmds)] ==
        IF k = 0 THEN HASH_INITIAL
        ELSE LET s == g[k - 1] IN IF s = s THEN FnvFold(s, cmds[k]) ELSE s
  IN  g[Len(cmds)]

(***************************************************************************)
(* Commands.  A command is its bytes in the command list: the int type,    *)
(* the int size, then the payload (little endian).                         *)
(***************************************************************************)
MU_COMMAND_RECT == 3

LE32(n) == <<n % 256, (n \div 256) % 256, (n \div 65536) % 256, (n \div 16777216) % 256>>

\* mu_RectCommand { base {type, size}; rect {x, y, w, h}; color {r, g, b, a} }
RectCommand(x, y, w, h, r, g, b, a) ==
  LE32(MU_COMMAND_RECT) \o LE32(28) \o LE32(x) \o LE32(y) \o LE32(w) \o LE32(h)
    \o <<r, g, b, a>>


\* the command lists the frame callback of the model builds
FramePlain == <<RectCommand(0, 0, 8, 8, 255, 255, 255, 255)>>
FrameTwo   == <<RectCommand(0, 0, 8, 8, 255, 255, 255, 255),
                RectCommand(2, 2, 4, 4, 0, 0, 0, 255)>>
FrameZ1    == <<RectCommand(1, 0, 8, 8, 75, 233, 117, 106)>>
FrameZ2    == <<RectCommand(1, 0, 8, 8, 1, 45, 126, 133)>>
Frames     == {<<>>, FramePlain, FrameTwo, FrameZ1, FrameZ2}

(***************************************************************************)
(* Program constants.                                                      *)
(***************************************************************************)
\* K_MSGQ_DEFINE(input_events, sizeof(struct microui_input), 12, 4)
MSGQ_MAX_MSGS == 12
MU_MOUSE_LEFT == 1
\* CONFIG_MICROUI_ANIMATION_POOL_SIZE of the build
MU_ANIM_POOL_SIZE == 2

VARIABLES
  \* ---- input_callback (input thread): its statics and where it stands
  mu_input,              \* static struct microui_input mu_input
  cb_mouse_pressed,      \* static bool mouse_pressed
  prod_pc,               \* "idle" | "put": blocked in k_msgq_put(K_FOREVER)
  evCount,               \* input events delivered so far
  touch_edges,           \* changes of the touch state so far: [pressed, released, synced]
  \* ---- the message queue
  input_events,
  \* ---- mu_handle_input_events statics
  pending_input,
  pending_input_valid,
  \* ---- zmu statics
  mu_ctx,                \* the Context: mouse state and command list
  frame_cb,              \* "NULL" or the callback
  previous_command_hash, \* static of mu_needs_redraw
  display_buffer,        \* commands rasterized by the running/last render pass
  display,               \* what the display shows: [shown, list], the last presented buffer
  cfg_lazy,              \* CONFIG_MICROUI_LAZY_REDRAW of the build
  app_frames,            \* the command lists the application's callback builds
  \* ---- the tick (work-queue thread)
  tick_pc,               \* position inside mu_handle_tick, "idle" between ticks
  tickNo,                \* number of the running/last tick
  tick_ret,              \* return value of the last mu_handle_tick
  \* ---- the work queue and the application thread
  wq_flags,              \* flags of mu_work_queue
  loop_work,             \* mu_loop_work: "idle" | "queued" | "running" | "delayed"
  app_pc,                \* "boot" | "setup" | "started" | "stopped"
  stop_ret,              \* return value of mu_event_loop_stop
  setup_ret,             \* return value of the last mu_setup
  \* ---- history
  nextSeq,               \* number of the next sample formed
  log,                   \* what the tick thread and the application did, in order
  puts,                  \* what the producer did, in order
  \* ---- animation state of the Context
  frame,                 \* ctx->frame
  curr_time_ms,          \* ctx->curr_time_ms, uint32_t
  anim_pool,             \* ctx->anim_pool: [id, last_update] per slot
  anim_states,           \* ctx->anim_states: mu_AnimState per slot
  anim_call,             \* the last animation call and what it returned
  anim_calls,            \* animation calls made so far
  \* ---- the renderer
  clip_rect,             \* static mu_Rect clip_rect
  last_op,               \* the last renderer call: [op, arg, ret]
  text_width_cache,      \* static struct text_width_cache_entry text_width_cache[]
  text,                  \* the string the application measures and draws
  font_glyphs,           \* font->glyphs of the application's font
  pixel_format,          \* display_caps.current_pixel_format
  display_width,         \* DT_PROP(DISPLAY_NODE, width) of the build
  fb,                    \* the pixel of display_buffer that is written
  \* ---- the clock
  uptime,                \* k_uptime_get(), in ms
  current_time,          \* int64_t current_time of microui_loop_work
  wait_time,             \* the delay mu_loop_work was last scheduled with, in ms
  tick_durations         \* how long a mu_handle_tick can take on the build, in ms

inputVars == <<mu_input, cb_mouse_pressed, prod_pc, evCount, touch_edges, input_events,
               pending_input, pending_input_valid>>
tickVars  == <<mu_ctx, frame_cb, previous_command_hash, display_buffer, display,
               cfg_lazy, app_frames, tick_pc, tickNo, tick_ret>>
loopVars  == <<wq_flags, loop_work, app_pc, stop_ret, setup_ret>>
histVars  == <<nextSeq, log, puts>>
animVars  == <<frame, curr_time_ms, anim_pool, anim_states, anim_call, anim_calls>>
textVars  == <<text_width_cache, text, font_glyphs>>
pixVars   == <<pixel_format, display_width, fb>>
drawVars  == <<clip_rect, last_op, textVars, pixVars>>
clockVars == <<uptime, current_time, wait_time, tick_durations>>

Coords == 0..MaxCoord

NoInput == [x |-> 0, y |-> 0, mouse_button |-> 0, down |-> FALSE, up |-> FALSE]

EdgeOf(s) == IF s.down THEN "down" ELSE IF s.up THEN "up" ELSE "none"

\* one entry of the history
Entry(ev, tick, seq, x, y, edge, ctx) ==
  [ev |-> ev, tick |-> tick, seq |-> seq, x |-> x, y |-> y, edge |-> edge,
   pos |-> ctx.mouse_pos, md |-> ctx.mouse_down, mp |-> ctx.mouse_pressed,
   cmds |-> Len(ctx.command_list)]

\* one entry of the producer's history: the sample it put ("put") or found
\* no room for ("full")
PutEntry(ev, seq, in) ==
  [ev |-> ev, seq |-> seq, x |-> in.x, y |-> in.y, edge |-> EdgeOf(in)]

\* the Context after mu_init: everything zero
InitCtx == [mouse_pos |-> <<0, 0>>, mouse_down |-> 0, mouse_pressed |-> 0,
            command_list |-> <<>>, hover |-> U32(0, 0), focus |-> U32(0, 0),
            id_stack |-> <<>>]

(***************************************************************************)
(* microui input functions.                                                *)
(***************************************************************************)
mu_input_mousemove(ctx, x, y) == [ctx EXCEPT !.mouse_pos = <<x, y>>]

mu_input_mousedown(ctx, x, y, btn) ==
  [mu_input_mousemove(ctx, x, y) EXCEPT
     !.mouse_down = IF btn = MU_MOUSE_LEFT THEN MU_MOUSE_LEFT ELSE @,
     !.mouse_pressed = IF btn = MU_MOUSE_LEFT THEN MU_MOUSE_LEFT ELSE @]

mu_input_mouseup(ctx, x, y, btn) ==
  [mu_input_mousemove(ctx, x, y) EXCEPT
     !.mouse_down = IF btn = MU_MOUSE_LEFT THEN 0 ELSE @]

(***************************************************************************)
(* input_callback: one input event.  The statics are updated by the        *)
(* event's code; a report that ends (sync) puts the sample on the queue,   *)
(* waiting for room when the queue is full (K_FOREVER).                    *)
(***************************************************************************)
EventCodes == {"INPUT_ABS_X", "INPUT_ABS_Y", "INPUT_BTN_TOUCH"}

EventValues(code) == IF code = "INPUT_BTN_TOUCH" THEN {0, 1} ELSE Coords

\* the switch on event->code
InputAfter(in, pressed, code, value) ==
  CASE code = "INPUT_ABS_X" -> [in EXCEPT !.x = value]
    [] code = "INPUT_ABS_Y" -> [in EXCEPT !.y = value]
    [] code = "INPUT_BTN_TOUCH" ->
         [in EXCEPT !.mouse_button = MU_MOUSE_LEFT,
                    !.down = (~pressed /\ value # 0),
                    !.up = (pressed /\ value = 0)]

Queued(in, seq) == [x |-> in.x, y |-> in.y, mouse_button |-> in.mouse_button,
                    down |-> in.down, up |-> in.up, seq |-> seq]

\* the changes of the touch state (static mouse_pressed, line 102) counted
\* so far and whether the last event ended a report, after an event that
\* took the touch state from was to now
NoEdges == [pressed |-> 0, released |-> 0, synced |-> TRUE]

EdgesAfter(edges, was, now, sync) ==
  [pressed  |-> edges.pressed + (IF ~was /\ now THEN 1 ELSE 0),
   released |-> edges.released + (IF was /\ ~now THEN 1 ELSE 0),
   synced   |-> sync]

\* a put that gives up on a full queue (K_NO_WAIT)
MsgqFullGivesUp == FALSE

\* k_msgq_put(&input_events, &mu_input, K_FOREVER) when the queue is full
MsgqFullBlocks == TRUE

\* a callback that moves the pointer of the Context itself
input_callback_direct(code, value, sync) ==
  /\ prod_pc = "idle"
  /\ evCount < MaxEvents
  /\ evCount' = evCount + 1
  /\ mu_input' = InputAfter(mu_input, cb_mouse_pressed, code, value)
  /\ cb_mouse_pressed' = IF code = "INPUT_BTN_TOUCH" THEN value # 0 ELSE cb_mouse_pressed
  /\ touch_edges' = EdgesAfter(touch_edges, cb_mouse_pressed, cb_mouse_pressed', sync)
  /\ IF ~sync
       THEN UNCHANGED <<prod_pc, input_events, histVars>>
       ELSE /\ nextSeq' = nextSeq + 1
            /\ IF Len(input_events) < MSGQ_MAX_MSGS
                 THEN /\ input_events' = Append(input_events, Queued(mu_input', nextSeq))
                      /\ puts' = Append(puts, PutEntry("put", nextSeq, mu_input'))
                      /\ prod_pc' = "idle"
                 ELSE /\ puts' = Append(puts, PutEntry("full", nextSeq, mu_input'))
                      /\ input_events' = input_events
                      /\ prod_pc' = IF MsgqFullBlocks THEN "put" ELSE "idle"
            /\ UNCHANGED log
  /\ mu_ctx' = IF sync THEN mu_input_mousemove(mu_ctx, mu_input'.x, mu_input'.y) ELSE mu_ctx
  /\ UNCHANGED <<pending_input, pending_input_valid, frame_cb, previous_command_hash,
                 display_buffer, display, cfg_lazy, app_frames, tick_pc, tickNo, tick_ret,
                 loopVars>>
  /\ UNCHANGED <<animVars, clockVars, drawVars>>

input_callback(code, value, sync) ==
  /\ prod_pc = "idle"
  /\ evCount < MaxEvents
  /\ evCount' = evCount + 1
  /\ mu_input' = InputAfter(mu_input, cb_mouse_pressed, code, value)
  /\ cb_mouse_pressed' = IF code = "INPUT_BTN_TOUCH" THEN value # 0 ELSE cb_mouse_pressed
  /\ touch_edges' = EdgesAfter(touch_edges, cb_mouse_pressed, cb_mouse_pressed', sync)
  /\ IF ~sync
       THEN UNCHANGED <<prod_pc, input_events, histVars>>
       ELSE /\ nextSeq' = nextSeq + 1
            /\ IF Len(input_events) < MSGQ_MAX_MSGS
                 THEN /\ input_events' = Append(input_events, Queued(mu_input', nextSeq))
                      /\ puts' = Append(puts, PutEntry("put", nextSeq, mu_input'))
                      /\ prod_pc' = "idle"
                 ELSE /\ puts' = Append(puts, PutEntry("full", nextSeq, mu_input'))
                      /\ input_events' = input_events
                      /\ prod_pc' = IF MsgqFullBlocks THEN "put" ELSE "idle"
            /\ UNCHANGED log
  /\ UNCHANGED <<pending_input, pending_input_valid, tickVars, loopVars>>
  /\ UNCHANGED <<animVars, clockVars, drawVars>>

\* the blocked k_msgq_put completes once the queue has room
k_msgq_put_wakeup ==
  /\ prod_pc = "put"
  /\ Len(input_events) < MSGQ_MAX_MSGS
  /\ input_events' = Append(input_events, Queued(mu_input, nextSeq - 1))
  /\ puts' = Append(puts, PutEntry("put", nextSeq - 1, mu_input))
  /\ prod_pc' = "idle"
  /\ UNCHANGED <<mu_input, cb_mouse_pressed, evCount, touch_edges, pending_input,
                 pending_input_valid,
                 nextSeq, log, tickVars, loopVars>>
  /\ UNCHANGED <<animVars, clockVars, drawVars>>

(***************************************************************************)
(* The event loop: mu_loop_work on mu_work_queue.                          *)
(*                                                                         *)
(* Zephyr's work queue: the queue thread takes a queued work item and runs *)
(* its handler to completion.  k_work_queue_stop(queue, timeout) returns   *)
(* -EALREADY when the queue was not started, -EBUSY when the queue is not  *)
(* plugged (plugging is done by k_work_queue_drain(queue, true)), and      *)
(* otherwise sets the stop flag and joins the queue thread.                *)
(***************************************************************************)
\* mu_event_loop_start, lines 1708-1715
mu_event_loop_start ==
  /\ app_pc = "setup"
  /\ frame_cb # "NULL"
  /\ wq_flags' = wq_flags \cup {"STARTED"}
  /\ loop_work' = "queued"
  /\ app_pc' = "started"
  /\ wait_time' = 0
  /\ UNCHANGED <<inputVars, tickVars, stop_ret, setup_ret, histVars>>
  /\ UNCHANGED <<animVars, drawVars, uptime, current_time, tick_durations>>

\* mu_event_loop_stop, lines 1717-1720: k_work_queue_stop(&mu_work_queue, K_FOREVER)
mu_event_loop_stop ==
  /\ app_pc = "started"
  /\ IF "STARTED" \notin wq_flags
       THEN stop_ret' = "-EALREADY" /\ UNCHANGED wq_flags
       ELSE IF "PLUGGED" \notin wq_flags
         THEN stop_ret' = "-EBUSY" /\ UNCHANGED wq_flags
         ELSE stop_ret' = "0" /\ wq_flags' = wq_flags \cup {"STOP"}
  /\ app_pc' = "stopped"
  /\ log' = Append(log, Entry("stop", tickNo, 0, 0, 0, "none", mu_ctx))
  /\ UNCHANGED <<inputVars, tickVars, loop_work, setup_ret, nextSeq, puts>>
  /\ UNCHANGED <<animVars, clockVars, drawVars>>

(***************************************************************************)
(* mu_handle_tick, run by microui_loop_work on the queue thread.  The      *)
(* drain loop of mu_handle_input_events is one step per k_msgq_get, since  *)
(* the producer may put samples while it runs; what follows the loop       *)
(* (frame callback, lazy redraw, render, present, reschedule) shares no    *)
(* state with the producer and is one step.                                *)
(***************************************************************************)
\* part_003 lines 39-49: the button change deferred by the last call
PendingApplied(ctx, p) ==
  IF p.down THEN mu_input_mousedown(ctx, p.x, p.y, p.mouse_button)
  ELSE IF p.up THEN mu_input_mouseup(ctx, p.x, p.y, p.mouse_button)
  ELSE ctx

\* CONFIG_MICROUI_DISPLAY_REFRESH_PERIOD of the build, in ms
DISPLAY_REFRESH_PERIOD == 2

\* microui_loop_work, lines 1695-1700, without the clamp at zero
wait_time_unclamped(render_time) == DISPLAY_REFRESH_PERIOD - render_time

\* microui_loop_work, lines 1695-1700: the delay of the next tick
wait_time_of(render_time) ==
  LET wait == DISPLAY_REFRESH_PERIOD - render_time
  IN  IF wait < 0 THEN 0 ELSE wait

\* microui_loop_work is taken by the queue thread (lines 1689-1693), and
\* mu_handle_input_events applies the deferred button change first
microui_loop_work_begin ==
  /\ loop_work \in {"queued", "delayed"}
  /\ "STARTED" \in wq_flags
  /\ "STOP" \notin wq_flags
  /\ tick_pc = "idle"
  /\ tickNo < MaxTicks
  /\ loop_work' = "running"
  /\ tickNo' = tickNo + 1
  /\ IF pending_input_valid
       THEN /\ mu_ctx' = PendingApplied(mu_ctx, pending_input)
            /\ log' = Append(log, Entry(EdgeOf(pending_input), tickNo + 1, pending_input.seq,
                                        pending_input.x, pending_input.y,
                                        EdgeOf(pending_input), mu_ctx'))
       ELSE UNCHANGED <<mu_ctx, log>>
  /\ pending_input_valid' = FALSE
  /\ tick_pc' = "drain"
  /\ UNCHANGED <<mu_input, cb_mouse_pressed, prod_pc, evCount, touch_edges, input_events,
                 pending_input,
                 frame_cb, previous_command_hash, display_buffer, display, cfg_lazy,
                 app_frames, tick_ret, wq_flags, app_pc, stop_ret, setup_ret, nextSeq,
                 puts>>
  /\ uptime' = uptime + wait_time
  /\ current_time' = uptime'
  /\ UNCHANGED <<animVars, drawVars, wait_time, tick_durations>>

\* part_003 line 58: the sample carries a button change, which ends the loop
CarriesButton(evt) == evt.down \/ evt.up

\* a drain that applies the button change with the move
DequeuedAppliedAtOnce(ctx, evt) ==
  IF evt.down THEN mu_input_mousedown(ctx, evt.x, evt.y, evt.mouse_button)
  ELSE IF evt.up THEN mu_input_mouseup(ctx, evt.x, evt.y, evt.mouse_button)
  ELSE mu_input_mousemove(ctx, evt.x, evt.y)

\* a drain that leaves the pointer where it was for a sample with a button change
DequeuedAppliedLate(ctx, evt) ==
  IF evt.down \/ evt.up THEN ctx ELSE mu_input_mousemove(ctx, evt.x, evt.y)

\* part_003 line 55: what a dequeued sample does to the Context at once
DequeuedApplied(ctx, evt) == mu_input_mousemove(ctx, evt.x, evt.y)

\* a drain that defers a sample with a button change and leaves it on the queue
drain_input_event_peek ==
  /\ tick_pc = "drain"
  /\ input_events # <<>>
  /\ LET evt == Head(input_events) IN
       /\ input_events' = IF CarriesButton(evt) THEN input_events ELSE Tail(input_events)
       /\ mu_ctx' = DequeuedApplied(mu_ctx, evt)
       /\ log' = Append(log, Entry("move", tickNo, evt.seq, evt.x, evt.y, EdgeOf(evt),
                                   mu_ctx'))
       /\ IF CarriesButton(evt)
            THEN /\ pending_input' = evt
                 /\ pending_input_valid' = TRUE
                 /\ tick_pc' = "frame"
            ELSE UNCHANGED <<pending_input, pending_input_valid, tick_pc>>
  /\ UNCHANGED <<mu_input, cb_mouse_pressed, prod_pc, evCount, touch_edges,
                 frame_cb, previous_command_hash, display_buffer, display, cfg_lazy,
                 app_frames, tickNo, tick_ret, loopVars, nextSeq, puts>>
  /\ UNCHANGED <<animVars, clockVars, drawVars>>

\* part_003 lines 54-65, one iteration with a sample on the queue
drain_input_event ==
  /\ tick_pc = "drain"
  /\ input_events # <<>>
  /\ LET evt == Head(input_events) IN
       /\ input_events' = Tail(input_events)
       /\ mu_ctx' = DequeuedApplied(mu_ctx, evt)
       /\ log' = Append(log, Entry("move", tickNo, evt.seq, evt.x, evt.y, EdgeOf(evt),
                                   mu_ctx'))
       /\ IF CarriesButton(evt)
            THEN /\ pending_input' = evt
                 /\ pending_input_valid' = TRUE
                 /\ tick_pc' = "frame"
            ELSE UNCHANGED <<pending_input, pending_input_valid, tick_pc>>
  /\ UNCHANGED <<mu_input, cb_mouse_pressed, prod_pc, evCount, touch_edges,
                 frame_cb, previous_command_hash, display_buffer, display, cfg_lazy,
                 app_frames, tickNo, tick_ret, loopVars, nextSeq, puts>>
  /\ UNCHANGED <<animVars, clockVars, drawVars>>

\* part_003 line 54: k_msgq_get finds the queue empty, the loop ends
drain_input_empty ==
  /\ tick_pc = "drain"
  /\ input_events = <<>>
  /\ tick_pc' = "frame"
  /\ UNCHANGED <<inputVars, mu_ctx, frame_cb, previous_command_hash, display_buffer,
                 display, cfg_lazy, app_frames, tickNo, tick_ret, loopVars, histVars>>
  /\ UNCHANGED <<animVars, clockVars, drawVars>>

\* the application's frame callback (samples/watch/src/main.c, process_frame):
\* mu_begin empties the command list, the widgets push this frame's
\* commands, mu_end clears mouse_pressed
process_frame(ctx, cmds) == [ctx EXCEPT !.command_list = cmds, !.mouse_pressed = 0]

\* mu_needs_redraw, lines 1652-1664: the comparison of the two hashes
mu_needs_redraw(current_command_hash, previous) == current_command_hash # previous

\* a redraw check that forgets the frame it let through
HashNotRemembered(current_command_hash, previous) == previous

\* mu_needs_redraw, line 1661: the hash remembered for the next call
HashRemembered(current_command_hash, previous) == current_command_hash

\* a render pass that presents before it replays
mu_render_present_first(n) == [i \in 1..(n + 1) |-> IF i = 1 THEN 0 ELSE i - 1]

\* mu_render, lines 1605-1650: the steps of one render pass over n commands;
\* i > 0 replays command i (mu_next_command order), 0 is renderer_present
mu_render(n) == [i \in 1..(n + 1) |-> IF i <= n THEN i ELSE 0]

\* what a render pass leaves: the buffer it rasterized into and the display
Rendered(cmds, steps, shown) ==
  LET f[i \in 0..Len(steps)] ==
        IF i = 0 THEN [buf |-> <<>>, disp |-> shown]
        ELSE IF steps[i] = 0
               THEN [f[i - 1] EXCEPT !.disp = [shown |-> TRUE, list |-> f[i - 1].buf]]
               ELSE [f[i - 1] EXCEPT !.buf = Append(@, cmds[steps[i]])]
  IN f[Len(steps)]

RenderLog(steps, tick, ctx) ==
  [i \in 1..Len(steps) |->
     Entry(IF steps[i] = 0 THEN "present" ELSE "replay", tick, steps[i],
           ctx.mouse_pos[1], ctx.mouse_pos[2], "none", ctx)]

\* mu_handle_tick after the input drain, lines 1672-1684, and the rest of
\* microui_loop_work, lines 1695-1703: the work item is scheduled again
mu_handle_tick_frame ==
  /\ tick_pc = "frame"
  /\ \E cmds \in app_frames :
       LET called == frame_cb # "NULL"
           ctx1 == IF called THEN process_frame(mu_ctx, cmds) ELSE mu_ctx
           cur == mu_get_id(ctx1.command_list)
           redraw == (~cfg_lazy) \/ mu_needs_redraw(cur, previous_command_hash)
           steps == mu_render(Len(ctx1.command_list))
           r == Rendered(ctx1.command_list, steps, display)
           cbLog == IF called
                      THEN <<Entry("cb", tickNo, 0, mu_ctx.mouse_pos[1], mu_ctx.mouse_pos[2],
                                   "none", mu_ctx)>>
                      ELSE <<>>
       IN /\ mu_ctx' = ctx1
          /\ previous_command_hash' =
               IF cfg_lazy /\ redraw THEN HashRemembered(cur, previous_command_hash)
               ELSE previous_command_hash
          /\ IF redraw
               THEN /\ display_buffer' = r.buf
                    /\ display' = r.disp
                    /\ log' = log \o cbLog \o RenderLog(steps, tickNo, ctx1)
               ELSE /\ UNCHANGED <<display_buffer, display>>
                    /\ log' = log \o cbLog
          /\ tick_ret' = redraw
  /\ tick_pc' = "idle"
  /\ \E d \in tick_durations :
       /\ uptime' = uptime + d
       /\ wait_time' = wait_time_of(uptime' - current_time)
  /\ loop_work' = "delayed"
  /\ UNCHANGED <<inputVars, frame_cb, cfg_lazy, app_frames, tickNo, wq_flags, app_pc,
                 stop_ret, setup_ret, nextSeq, puts, animVars, drawVars>>
  /\ UNCHANGED <<current_time, tick_durations>>

(***************************************************************************)
(* Animation (animation.c).                                                *)
(*                                                                         *)
(* mu_Real is float.  A value is held in quarters (4 is 1.0f), rounded to  *)
(* the 24 significant bits of a float after every operation, ties to even. *)
(***************************************************************************)
\* the spacing of floats around magnitude a
RECURSIVE Ulp(_, _)
Ulp(a, q) == IF a \div q < 16777216 THEN q ELSE Ulp(a, 2 * q)

\* round to nearest float, ties to even
Fl(x) ==
  LET a == IF x < 0 THEN 0 - x ELSE x
      q == Ulp(a, 1)
      k == a \div q
      r == a % q
      m == IF 2 * r > q \/ (2 * r = q /\ k % 2 = 1) THEN (k + 1) * q ELSE k * q
  IN  IF x < 0 THEN 0 - m ELSE m

FAdd(a, b) == Fl(a + b)
FSub(a, b) == Fl(a - b)
\* the product of two quarter-valued floats, in quarters
FMul(a, b) == Fl(a * b) \div 4

Real(n) == 4 * n

\* ease_linear, ease_in_quad (lines 82-90)
Easings == {"ease_linear", "ease_in_quad"}

Ease(easing, t) == IF easing = "ease_in_quad" THEN FMul(t, t) ELSE t

\* lines 282-287: (mu_Real)elapsed / (mu_Real)duration_ms, capped at 1.0f.
\* The quotient is at least 1.0f exactly when elapsed >= duration_ms
\* (duration_ms is below 2^24, so it converts exactly and rounding is
\* monotonic); below that the clock values of the model keep it a multiple
\* of a quarter.
Progress(elapsed, duration_ms) ==
  IF duration_ms = 0 THEN 4
  ELSE IF elapsed[1] > 0 \/ elapsed[2] >= duration_ms THEN 4
  ELSE (4 * elapsed[2]) \div duration_ms

\* line 291: start + (end - start) * eased
Lerp(start, end, eased) == FAdd(start, FMul(FSub(end, start), eased))

\* memset(state, 0, sizeof(mu_AnimState))
mu_AnimState0 == [start |-> 0, end |-> 0, duration_ms |-> 0, start_time_ms |-> U32(0, 0),
                  easing |-> "NULL", finished |-> 0, current |-> 0, loop |-> 0]

(***************************************************************************)
(* The retained pool (microui.c): get, init, update.                       *)
(***************************************************************************)
Slots == 1..MU_ANIM_POOL_SIZE

FirstSlot(S) == IF S = {} THEN 0 ELSE CHOOSE i \in S : \A j \in S : i <= j

\* a lookup that never finds the id
mu_pool_get_none(items, id) == 0

\* index of the slot holding id, 0 for "not found" (-1 in the source)
mu_pool_get(items, id) == FirstSlot({i \in Slots : items[i].id = id})

mu_pool_update(items, idx, now) == [items EXCEPT ![idx].last_update = now]

\* the first free slot is claimed for id and stamped; 0 when the pool is full
mu_pool_init_idx(items) == FirstSlot({i \in Slots : items[i].id = 0})

mu_pool_init(items, id, now) ==
  LET idx == mu_pool_init_idx(items)
  IN  IF idx = 0 THEN items
      ELSE mu_pool_update([items EXCEPT ![idx].id = id], idx, now)

\* lines 233-241: the slot with the smallest last_update below the current
\* frame, the first such slot on a tie; 0 when no slot is older than the frame
OldestSlot(items, now) ==
  LET f[i \in 0..MU_ANIM_POOL_SIZE] ==
        IF i = 0 THEN [idx |-> 0, oldest_frame |-> now]
        ELSE IF items[i].last_update < f[i - 1].oldest_frame
               THEN [idx |-> i, oldest_frame |-> items[i].last_update]
               ELSE f[i - 1]
  IN  f[MU_ANIM_POOL_SIZE].idx

\* mu_anim_count, lines 347-356: the slots whose id is not 0
mu_anim_count(pool) == Cardinality({i \in Slots : pool[i].id # 0})

\* a get_anim_state that does not stamp the slot it finds
get_anim_state_quiet(pool, states, now, id, create) ==
  LET found == mu_pool_get(pool, id)
      fresh == mu_pool_init_idx(pool)
      oldest == OldestSlot(pool, now)
  IN  IF found > 0
        THEN [idx |-> found, pool |-> pool, states |-> states]
      ELSE IF ~create
        THEN [idx |-> 0, pool |-> pool, states |-> states]
      ELSE IF fresh > 0
        THEN [idx |-> fresh, pool |-> mu_pool_init(pool, id, now),
              states |-> [states EXCEPT ![fresh] = mu_AnimState0]]
      ELSE IF oldest > 0
        THEN [idx |-> oldest,
              pool |-> mu_pool_update([pool EXCEPT ![oldest].id = id], oldest, now),
              states |-> [states EXCEPT ![oldest] = mu_AnimState0]]
      ELSE [idx |-> 0, pool |-> pool, states |-> states]

\* get_anim_state, lines 211-252: the slot (0 for NULL), and the pool and
\* the states it leaves
get_anim_state(pool, states, now, id, create) ==
  LET found == mu_pool_get(pool, id)
      fresh == mu_pool_init_idx(pool)
      oldest == OldestSlot(pool, now)
  IN  IF found > 0
        THEN [idx |-> found, pool |-> mu_pool_update(pool, found, now), states |-> states]
      ELSE IF ~create
        THEN [idx |-> 0, pool |-> pool, states |-> states]
      ELSE IF fresh > 0
        THEN [idx |-> fresh, pool |-> mu_pool_init(pool, id, now),
              states |-> [states EXCEPT ![fresh] = mu_AnimState0]]
      ELSE IF oldest > 0
        THEN [idx |-> oldest,
              pool |-> mu_pool_update([pool EXCEPT ![oldest].id = id], oldest, now),
              states |-> [states EXCEPT ![oldest] = mu_AnimState0]]
      ELSE [idx |-> 0, pool |-> pool, states |-> states]

\* line 268: the stored tuple differs from the call's
TupleDiffers(st, start, end, duration_ms, easing, loop) ==
  \/ st.duration_ms # duration_ms
  \/ st.start # start
  \/ st.end # end
  \/ st.easing # easing
  \/ (st.loop # 0) # loop

\* lines 270-278
Restarted(st, now_ms, start, end, duration_ms, easing, loop) ==
  [start |-> start, end |-> end, duration_ms |-> duration_ms, start_time_ms |-> now_ms,
   easing |-> easing, finished |-> 0, current |-> start, loop |-> IF loop THEN 1 ELSE 0]

\* lines 281-300: progress, value, and what t >= 1 does
Advanced(st, now_ms) ==
  LET elapsed == Sub32(now_ms, st.start_time_ms)
      t == Progress(elapsed, st.duration_ms)
      eased == Ease(st.easing, t)
      value == Lerp(st.start, st.end, eased)
  IN  [st EXCEPT !.current = value,
                 !.start_time_ms = IF t >= 4 /\ st.loop # 0 THEN now_ms ELSE @,
                 !.finished = IF t >= 4 /\ st.loop = 0 THEN 1 ELSE @]

\* the last call: its arguments, what it returned, and the id its slot held
\* before the call (0 for a free slot or no slot)
NoCall == [op |-> "none", id |-> 0, start |-> 0, end |-> 0, duration_ms |-> 0,
           easing |-> "NULL", loop |-> FALSE, ret |-> 0, held |-> 0]

\* mu_anim_ex, lines 254-303
mu_anim_ex(id, start, end, duration_ms, easing_arg, loop) ==
  /\ frame > 0
  /\ anim_calls < MaxAnimCalls
  /\ anim_calls' = anim_calls + 1
  /\ LET g == get_anim_state(anim_pool, anim_states, frame, id, TRUE)
         easing == IF easing_arg = "NULL" THEN "ease_linear" ELSE easing_arg
     IN  IF g.idx = 0
           THEN /\ anim_pool' = g.pool
                /\ anim_states' = g.states
                /\ anim_call' = [op |-> "mu_anim_ex", id |-> id, start |-> start, end |-> end,
                                 duration_ms |-> duration_ms, easing |-> easing,
                                 loop |-> loop, ret |-> end, held |-> 0]
           ELSE LET st0 == g.states[g.idx]
                    st1 == IF TupleDiffers(st0, start, end, duration_ms, easing, loop)
                             THEN Restarted(st0, curr_time_ms, start, end, duration_ms,
                                            easing, loop)
                             ELSE st0
                    st2 == Advanced(st1, curr_time_ms)
                IN  /\ anim_pool' = g.pool
                    /\ anim_states' = [g.states EXCEPT ![g.idx] = st2]
                    /\ anim_call' = [op |-> "mu_anim_ex", id |-> id, start |-> start,
                                     end |-> end, duration_ms |-> duration_ms,
                                     easing |-> easing, loop |-> loop, ret |-> st2.current,
                                     held |-> anim_pool[g.idx].id]
  /\ UNCHANGED <<frame, curr_time_ms, inputVars, tickVars, loopVars, histVars, clockVars, drawVars>>

\* mu_anim_done, lines 313-322; ret is 1 for true
mu_anim_done(id) ==
  /\ frame > 0
  /\ anim_calls < MaxAnimCalls
  /\ anim_calls' = anim_calls + 1
  /\ LET g == get_anim_state(anim_pool, anim_states, frame, id, FALSE)
     IN  /\ anim_pool' = g.pool
         /\ anim_states' = g.states
         /\ anim_call' = [NoCall EXCEPT !.op = "mu_anim_done", !.id = id,
                            !.ret = IF g.idx = 0 THEN 1
                                    ELSE IF g.states[g.idx].finished # 0 THEN 1 ELSE 0]
  /\ UNCHANGED <<frame, curr_time_ms, inputVars, tickVars, loopVars, histVars, clockVars, drawVars>>

\* mu_anim_reset, lines 324-333
mu_anim_reset(id) ==
  /\ frame > 0
  /\ anim_calls < MaxAnimCalls
  /\ anim_calls' = anim_calls + 1
  /\ LET g == get_anim_state(anim_pool, anim_states, frame, id, FALSE)
     IN  /\ anim_pool' = g.pool
         /\ anim_states' =
              IF g.idx = 0 THEN g.states
              ELSE [g.states EXCEPT ![g.idx].start_time_ms = curr_time_ms,
                                    ![g.idx].finished = 0,
                                    ![g.idx].current = g.states[g.idx].start]
         /\ anim_call' = [NoCall EXCEPT !.op = "mu_anim_reset", !.id = id]
  /\ UNCHANGED <<frame, curr_time_ms, inputVars, tickVars, loopVars, histVars, clockVars, drawVars>>

\* the next frame begins (mu_begin): the frame counter advances and the
\* clock has moved on; the id stack is empty between frames and no call of
\* the last frame is outstanding
mu_begin(step) ==
  /\ frame < MaxFrames
  /\ mu_ctx.id_stack = <<>>
  /\ frame' = frame + 1
  /\ curr_time_ms' = Add32(curr_time_ms, step)
  /\ last_op' = [op |-> "none", arg |-> <<>>, ret |-> <<>>]
  /\ UNCHANGED <<anim_pool, anim_states, anim_call, anim_calls,
                 inputVars, tickVars, loopVars, histVars, clockVars, clip_rect, textVars, pixVars>>

(***************************************************************************)
(* The software renderer (zmu.c): the clip rectangle and the pixels each   *)
(* primitive writes.  A pixel is <<x, y>>; the frame buffer is addressed   *)
(* in pixel coordinates, which is the byte addressing of the source for a  *)
(* display whose width is a multiple of 8 (DISPLAY_STRIDE is then          *)
(* DISPLAY_WIDTH * DISPLAY_BYTES_PER_PIXEL).                               *)
(***************************************************************************)
\* no renderer call made, or the render loop between two commands
NoOp == [op |-> "none", arg |-> <<>>, ret |-> <<>>]

\* DT_PROP(DISPLAY_NODE, width) and DT_PROP(DISPLAY_NODE, height)
DISPLAY_WIDTH == 3
DISPLAY_HEIGHT == 3

mu_min(a, b) == IF a < b THEN a ELSE b
mu_max(a, b) == IF a > b THEN a ELSE b

mu_rect(x, y, w, h) == [x |-> x, y |-> y, w |-> w, h |-> h]

\* int division of C: the quotient is truncated towards zero
CDiv(a, b) ==
  IF (a >= 0) = (b > 0) THEN (IF a >= 0 THEN a ELSE 0 - a) \div (IF b > 0 THEN b ELSE 0 - b)
  ELSE 0 - ((IF a >= 0 THEN a ELSE 0 - a) \div (IF b > 0 THEN b ELSE 0 - b))

Abs(a) == IF a < 0 THEN 0 - a ELSE a

\* lines 520-534
intersect_rects(r1, r2) ==
  LET x1 == mu_max(r1.x, r2.x)
      y1 == mu_max(r1.y, r2.y)
      x2 == mu_min(r1.x + r1.w, r2.x + r2.w)
      y2 == mu_min(r1.y + r1.h, r2.y + r2.h)
  IN  mu_rect(x1, y1, mu_max(x2, x1) - x1, mu_max(y2, y1) - y1)

display_rect == mu_rect(0, 0, DISPLAY_WIDTH, DISPLAY_HEIGHT)

\* the pixels of a rectangle
PixelsOf(r) == {p \in (r.x..(r.x + r.w - 1)) \X (r.y..(r.y + r.h - 1)) : TRUE}

\* set_pixel_unchecked, lines 781-844: the pixel is written
set_pixel_unchecked(x, y) == {<<x, y>>}

\* set_pixel, lines 846-854: the pixels written, none outside the clip rectangle
set_pixel(clip, x, y) ==
  IF x < clip.x \/ y < clip.y \/ x >= clip.x + clip.w \/ y >= clip.y + clip.h
    THEN {}
    ELSE set_pixel_unchecked(x, y)

\* renderer_draw_rect, lines 977-1030: the rectangle is clamped to the
\* display only; every path (mono, blended, first row and memcpy of the
\* other rows) writes all of its pixels
renderer_draw_rect(clip, rect) ==
  LET r == intersect_rects(rect, display_rect)
  IN  IF r.w = 0 \/ r.h = 0 THEN {} ELSE PixelsOf(r)

\* lines 866-870: the square brush around a point of the line
Brush(clip, x, y, thickness) ==
  LET t == thickness \div 2
  IN  UNION {set_pixel(clip, x + tx, y + ty) : tx \in (0 - t)..t, ty \in (0 - t)..t}

\* renderer_draw_line, lines 856-885
RECURSIVE LineFrom(_, _, _, _, _, _, _, _, _, _)
LineFrom(clip, x, y, p1, err, thickness, dx, dy, sx, sy) ==
  LET here == Brush(clip, x, y, thickness)
      err2 == err * 2
      stepx == err2 > 0 - dy
      stepy == err2 < dx
      e1 == IF stepx THEN err - dy ELSE err
      e2 == IF stepy THEN e1 + dx ELSE e1
  IN  IF x = p1.x /\ y = p1.y THEN here
      ELSE here \cup LineFrom(clip, IF stepx THEN x + sx ELSE x, IF stepy THEN y + sy ELSE y,
                              p1, e2, thickness, dx, dy, sx, sy)

renderer_draw_line(clip, p0, p1, thickness) ==
  LET dx == Abs(p1.x - p0.x)
      dy == Abs(p1.y - p0.y)
      sx == IF p0.x < p1.x THEN 1 ELSE 0 - 1
      sy == IF p0.y < p1.y THEN 1 ELSE 0 - 1
  IN  LineFrom(clip, p0.x, p0.y, p1, dx - dy, thickness, dx, dy, sx, sy)

mu_vec2(x, y) == [x |-> x, y |-> y]

\* renderer_draw_icon, lines 1063-1105: each icon is two or three lines
renderer_draw_icon(clip, id, rect) ==
  LET x == rect.x
      y == rect.y
      w == rect.w
      h == rect.h
      L(ax, ay, bx, by) == renderer_draw_line(clip, mu_vec2(ax, ay), mu_vec2(bx, by), 1)
  IN  IF id = "MU_ICON_CLOSE"
        THEN L(x + CDiv(w, 4), y + CDiv(h, 4), x + w - CDiv(w, 4), y + h - CDiv(h, 4))
             \cup L(x + w - CDiv(w, 4), y + CDiv(h, 4), x + CDiv(w, 4), y + h - CDiv(h, 4))
      ELSE IF id = "MU_ICON_COLLAPSED"
        THEN L(x + CDiv(w, 3), y + CDiv(h, 3), x + w - CDiv(w, 3), y + CDiv(h, 2))
             \cup L(x + w - CDiv(w, 3), y + CDiv(h, 2), x + CDiv(w, 3), y + h - CDiv(h, 3))
             \cup L(x + CDiv(w, 3), y + h - CDiv(h, 3), x + CDiv(w, 3), y + CDiv(h, 3))
      ELSE IF id = "MU_ICON_EXPANDED"
        THEN L(x + CDiv(w, 3), y + CDiv(h, 3), x + w - CDiv(w, 3), y + CDiv(h, 3))
             \cup L(x + w - CDiv(w, 3), y + CDiv(h, 3), x + CDiv(w, 2), y + h - CDiv(h, 3))
             \cup L(x + CDiv(w, 2), y + h - CDiv(h, 3), x + CDiv(w, 3), y + CDiv(h, 3))
      ELSE IF id = "MU_ICON_CHECK"
        THEN L(x + CDiv(w, 4), y + CDiv(h, 2), x + CDiv(w, 2), y + h - CDiv(h, 4))
             \cup L(x + CDiv(w, 2), y + h - CDiv(h, 4), x + w - CDiv(w, 5), y + CDiv(h, 5))
      ELSE {}

\* renderer_draw_circle, lines 1355-1384
RECURSIVE CircleFrom(_, _, _, _, _, _)
CircleFrom(clip, cx, cy, x, y, err) ==
  IF x < y THEN {}
  ELSE LET spans ==
             UNION {set_pixel(clip, i, cy + y) \cup set_pixel(clip, i, cy - y) :
                      i \in (cx - x)..(cx + x)}
             \cup
             UNION {set_pixel(clip, i, cy + x) \cup set_pixel(clip, i, cy - x) :
                      i \in (cx - y)..(cx + y)}
           y1 == y + 1
       IN  spans \cup (IF err < 0 THEN CircleFrom(clip, cx, cy, x, y1, err + 2 * y1 + 1)
                       ELSE CircleFrom(clip, cx, cy, x - 1, y1, err + 2 * (y1 - (x - 1) + 1)))

renderer_draw_circle(clip, center, radius) ==
  CircleFrom(clip, center.x, center.y, radius, 0, 1 - radius)

\* renderer_draw_arc, lines 1259-1353, for start_angle = end_angle (the
\* full ring; any other pair of angles writes a subset of these pixels):
\* the Andres circle of every radius from inner to outer
RECURSIVE AndresFrom(_, _, _, _, _, _, _)
AndresFrom(clip, cx, cy, r, x, y, d) ==
  IF y < x THEN {}
  ELSE LET eight == set_pixel(clip, cx + y, cy + x) \cup set_pixel(clip, cx + x, cy + y)
                      \cup set_pixel(clip, cx - x, cy + y) \cup set_pixel(clip, cx - y, cy + x)
                      \cup set_pixel(clip, cx - y, cy - x) \cup set_pixel(clip, cx - x, cy - y)
                      \cup set_pixel(clip, cx + x, cy - y) \cup set_pixel(clip, cx + y, cy - x)
       IN  eight \cup
           (IF d >= 2 * x THEN AndresFrom(clip, cx, cy, r, x + 1, y, d - 2 * x - 1)
            ELSE IF d < 2 * (r - y) THEN AndresFrom(clip, cx, cy, r, x, y - 1, d + 2 * y - 1)
            ELSE AndresFrom(clip, cx, cy, r, x + 1, y - 1, d + 2 * (y - x - 1)))

renderer_draw_arc(clip, center, radius, thickness) ==
  LET inner_radius == mu_max(radius - CDiv(thickness, 2), 0)
      outer_radius == radius + CDiv(thickness - 1, 2)
  IN  UNION {AndresFrom(clip, center.x, center.y, r, 0, r, r - 1) :
               r \in inner_radius..outer_radius}

\* renderer_draw_image, lines 1386-1495: every path writes the part of the
\* image inside the display and the clip rectangle
renderer_draw_image(clip, pos, width, height) ==
  LET visible == intersect_rects(intersect_rects(mu_rect(pos.x, pos.y, width, height),
                                                 display_rect), clip)
  IN  IF width = 0 \/ height = 0 \/ visible.w = 0 \/ visible.h = 0 THEN {}
      ELSE PixelsOf(visible)

\* draw_glyph, lines 887-955, for a font of bitmap_width 8: bits is the set
\* of columns whose bit is set in every row of the glyph's bitmap
draw_glyph(clip, bits, glyph_width, x, y, font_height) ==
  LET visible == intersect_rects(intersect_rects(mu_rect(x, y, glyph_width, font_height),
                                                 display_rect), clip)
      start_col == visible.x - x
      end_col == visible.x + visible.w - x
      start_row == visible.y - y
      end_row == visible.y + visible.h - y
      \* row_data &= (0xFF >> start_col); row_data &= (0xFF << (8 - end_col))
      row_data == {col \in bits : col >= start_col /\ col < end_col}
  IN  IF visible.w = 0 \/ visible.h = 0 THEN {}
      ELSE UNION {set_pixel_unchecked(x + col, y + row) :
                    col \in row_data, row \in start_row..(end_row - 1)}

\* renderer_draw_triangle, lines 1497-1591
renderer_draw_triangle(clip, q0, q1, q2) ==
  LET \* the three swaps that sort the vertices by y
      a0 == IF q0.y > q1.y THEN q1 ELSE q0
      a1 == IF q0.y > q1.y THEN q0 ELSE q1
      b1 == IF a1.y > q2.y THEN q2 ELSE a1
      p2 == IF a1.y > q2.y THEN a1 ELSE q2
      p0 == IF a0.y > b1.y THEN b1 ELSE a0
      p1 == IF a0.y > b1.y THEN a0 ELSE b1
      clip_x_min == clip.x
      clip_x_max == clip.x + clip.w - 1
      clip_y_min == clip.y
      clip_y_max == clip.y + clip.h - 1
      tri_x_min == mu_min(p0.x, mu_min(p1.x, p2.x))
      tri_x_max == mu_max(p0.x, mu_max(p1.x, p2.x))
      y_start == mu_max(p0.y, clip_y_min)
      y_end == mu_min(p2.y, clip_y_max)
      total_height == p2.y - p0.y
      Span(y) ==
        LET second_half == (y > p1.y) \/ (p1.y = p0.y)
            sh == IF second_half THEN p2.y - p1.y ELSE p1.y - p0.y
            segment_height == IF sh = 0 THEN 1 ELSE sh
            alpha == CDiv((y - p0.y) * 256, total_height)
            beta == IF second_half THEN CDiv((y - p1.y) * 256, segment_height)
                    ELSE CDiv((y - p0.y) * 256, segment_height)
            xa == p0.x + CDiv((p2.x - p0.x) * alpha, 256)
            xb == IF second_half THEN p1.x + CDiv((p2.x - p1.x) * beta, 256)
                  ELSE p0.x + CDiv((p1.x - p0.x) * beta, 256)
            x_a == mu_max(mu_min(xa, xb), clip_x_min)
            x_b == mu_min(mu_max(xa, xb), clip_x_max)
        IN  UNION {set_pixel_unchecked(x, y) : x \in x_a..x_b}
  IN  IF p2.y < clip_y_min \/ p0.y > clip_y_max
           \/ tri_x_max < clip_x_min \/ tri_x_min > clip_x_max
        THEN {}
      ELSE IF p0.y = p2.y
        THEN IF p0.y < clip_y_min \/ p0.y > clip_y_max THEN {}
             ELSE UNION {set_pixel_unchecked(x, p0.y) :
                           x \in mu_max(tri_x_min, clip_x_min)..mu_min(tri_x_max, clip_x_max)}
      ELSE UNION {Span(y) : y \in y_start..y_end}

\* renderer_set_clip_rect, lines 1178-1182 (MU_COMMAND_CLIP)
renderer_set_clip_rect(rect) ==
  /\ last_op = NoOp
  /\ clip_rect' = intersect_rects(rect, display_rect)
  /\ last_op' = [op |-> "clip", arg |-> rect, ret |-> {}]
  /\ UNCHANGED <<textVars, pixVars,
                 inputVars, tickVars, loopVars, histVars, animVars, clockVars>>

\* a drawing command of the list is replayed (mu_render, lines 1611-1645):
\* last_op.ret is the set of pixels the renderer wrote for it
Replay(op, arg, written) ==
  /\ last_op = NoOp
  /\ last_op' = [op |-> op, arg |-> arg, ret |-> written]
  /\ UNCHANGED <<clip_rect, textVars, pixVars,
                 inputVars, tickVars, loopVars, histVars, animVars, clockVars>>

\* mu_next_command, line 1611: the loop of mu_render moves on to the next
\* command of the list
mu_next_command ==
  /\ last_op # NoOp
  /\ last_op' = NoOp
  /\ UNCHANGED <<clip_rect, textVars, pixVars,
                 inputVars, tickVars, loopVars, histVars, animVars, clockVars>>

cmd_rect(rect) == Replay("rect", rect, renderer_draw_rect(clip_rect, rect))

cmd_text(glyph_width, font_height, pos) ==
  Replay("text", <<glyph_width, font_height, pos>>,
         draw_glyph(clip_rect, 0..7, glyph_width, pos.x, pos.y, font_height))

cmd_icon(id, rect) == Replay("icon", <<id, rect>>, renderer_draw_icon(clip_rect, id, rect))

cmd_line(p0, p1, thickness) ==
  Replay("line", <<p0, p1, thickness>>, renderer_draw_line(clip_rect, p0, p1, thickness))

cmd_circle(center, radius) ==
  Replay("circle", <<center, radius>>, renderer_draw_circle(clip_rect, center, radius))

cmd_arc(center, radius, thickness) ==
  Replay("arc", <<center, radius, thickness>>,
         renderer_draw_arc(clip_rect, center, radius, thickness))

cmd_triangle(p0, p1, p2) ==
  Replay("triangle", <<p0, p1, p2>>, renderer_draw_triangle(clip_rect, p0, p1, p2))

cmd_image(pos, width, height) ==
  Replay("image", <<pos, width, height>>, renderer_draw_image(clip_rect, pos, width, height))

(***************************************************************************)
(* Text (zmu.c): UTF-8 decoding, glyph lookup, drawing and measuring.      *)
(* A string is the sequence of its bytes before the terminating NUL; the   *)
(* byte at index Len + 1 is the NUL, anything after it is not the string's. *)
(***************************************************************************)
\* bytes[i] of the C string
ByteAt(str, i) == IF i <= Len(str) THEN str[i] ELSE 0

\* U+FFFD, the replacement character
REPLACEMENT == 65533

\* any byte with the top bit set taken for a continuation byte
IsContLoose(b) == b >= 128

\* a continuation byte: (b & 0xC0) == 0x80
IsCont(b) == b \div 64 = 2

\* next_utf8_codepoint, lines 461-513 (CONFIG_MICROUI_TEXT_UTF8), at index
\* pos of str: the codepoint, the bytes consumed, and the highest index read
next_utf8_codepoint(str, pos) ==
  LET b0 == ByteAt(str, pos)
      b1 == ByteAt(str, pos + 1)
      b2 == ByteAt(str, pos + 2)
      b3 == ByteAt(str, pos + 3)
      bad(last) == [codepoint |-> REPLACEMENT, consumed |-> 1, last |-> last]
  IN  IF b0 = 0 THEN [codepoint |-> 0, consumed |-> 0, last |-> pos]
      ELSE IF b0 < 128 THEN [codepoint |-> b0, consumed |-> 1, last |-> pos]
      ELSE IF b0 \div 32 = 6
        THEN IF b1 = 0 \/ ~IsCont(b1) THEN bad(pos + 1)
             ELSE [codepoint |-> (b0 % 32) * 64 + (b1 % 64), consumed |-> 2,
                   last |-> pos + 1]
      ELSE IF b0 \div 16 = 14
        THEN IF b1 = 0 THEN bad(pos + 1)
             ELSE IF b2 = 0 \/ ~IsCont(b1) \/ ~IsCont(b2) THEN bad(pos + 2)
             ELSE [codepoint |-> (b0 % 16) * 4096 + (b1 % 64) * 64 + (b2 % 64),
                   consumed |-> 3, last |-> pos + 2]
      ELSE IF b0 \div 8 = 30
        THEN IF b1 = 0 THEN bad(pos + 1)
             ELSE IF b2 = 0 THEN bad(pos + 2)
             ELSE IF b3 = 0 \/ ~IsCont(b1) \/ ~IsCont(b2) \/ ~IsCont(b3) THEN bad(pos + 3)
             ELSE [codepoint |-> (b0 % 8) * 262144 + (b1 % 64) * 4096 + (b2 % 64) * 64
                                   + (b3 % 64),
                   consumed |-> 4, last |-> pos + 3]
      ELSE bad(pos)

\* the search with a strict comparison
RECURSIVE SearchFromStrict(_, _, _, _)
SearchFromStrict(glyphs, codepoint, base, len) ==
  IF len > 1
    THEN LET half == len \div 2
         IN  SearchFromStrict(glyphs, codepoint,
                              IF glyphs[base + half + 1].codepoint < codepoint
                                THEN base + half ELSE base,
                              len - half)
    ELSE IF glyphs[base + 1].codepoint = codepoint THEN base + 1 ELSE 0

\* find_glyph, lines 439-459: the branchless binary search; glyphs is the
\* table, base the offset of the window and len its length.  The index of
\* the glyph found, 0 for NULL
RECURSIVE SearchFrom(_, _, _, _)
SearchFrom(glyphs, codepoint, base, len) ==
  IF len > 1
    THEN LET half == len \div 2
         IN  SearchFrom(glyphs, codepoint,
                        IF glyphs[base + half + 1].codepoint <= codepoint
                          THEN base + half ELSE base,
                        len - half)
    ELSE IF glyphs[base + 1].codepoint = codepoint THEN base + 1 ELSE 0

find_glyph(glyphs, codepoint) ==
  IF Len(glyphs) = 0 THEN 0 ELSE SearchFrom(glyphs, codepoint, 0, Len(glyphs))

\* the advance of one character: the glyph's width, or the font's
\* default_width when the font has no glyph for it
CharWidth(font, codepoint) ==
  LET g == find_glyph(font.glyphs, codepoint)
  IN  IF g > 0 THEN font.glyphs[g].width ELSE font.default_width

\* renderer_draw_text, lines 1042-1060: the loop from byte index pos with the
\* cursor at x, after n iterations; the final x and the iterations made
RECURSIVE DrawFrom(_, _, _, _, _)
DrawFrom(font, str, pos, x, n) ==
  IF ByteAt(str, pos) = 0 THEN [x |-> x, iterations |-> n]
  ELSE LET c == next_utf8_codepoint(str, pos)
       IN  IF c.consumed = 0 THEN [x |-> x, iterations |-> n + 1]
           ELSE DrawFrom(font, str, pos + c.consumed,
                         x + CharWidth(font, c.codepoint) + font.char_spacing, n + 1)

\* lines 1154-1156: the spacing that goes into the measured width
SpacingBetween(font, char_count) ==
  IF char_count > 0 THEN (char_count - 1) * font.char_spacing ELSE 0

\* renderer_get_text_width, lines 1133-1152: the loop; the sum of the
\* widths, the characters counted and the iterations made
RECURSIVE MeasureFrom(_, _, _, _, _, _, _)
MeasureFrom(font, str, len, byte_count, width, char_count, n) ==
  LET pos == byte_count + 1
      c == next_utf8_codepoint(str, pos)
  IN  IF ~(byte_count < len /\ ByteAt(str, pos) # 0)
        THEN [width |-> width, char_count |-> char_count, iterations |-> n]
      ELSE IF c.consumed = 0 \/ byte_count + c.consumed > len
        THEN [width |-> width, char_count |-> char_count, iterations |-> n + 1]
      ELSE MeasureFrom(font, str, len, byte_count + c.consumed,
                       width + CharWidth(font, c.codepoint), char_count + 1, n + 1)

\* CONFIG_MICROUI_TEXT_WIDTH_CACHE_SIZE of the build
TEXT_WIDTH_CACHE_SIZE == 2

\* fnv1a_hash, lines 420-428: over the first len bytes, up to the NUL
fnv1a_hash(str, len) ==
  FnvFold(HASH_INITIAL, SubSeq(str, 1, mu_min(len, Len(str))))

\* hash % CONFIG_MICROUI_TEXT_WIDTH_CACHE_SIZE, as an index from 1
CacheIdx(hash) ==
  (((hash[1] % TEXT_WIDTH_CACHE_SIZE) * (Limb % TEXT_WIDTH_CACHE_SIZE) + hash[2])
     % TEXT_WIDTH_CACHE_SIZE) + 1

\* a zeroed entry of text_width_cache
NoEntry == [font |-> 0, hash |-> U32(0, 0), len |-> 0, width |-> 0]

\* line 1128: the entry answers the call
CacheHit(cache, f, str, len) ==
  LET hash == fnv1a_hash(str, len)
      entry == cache[CacheIdx(hash)]
  IN  entry.font = f /\ entry.hash = hash /\ entry.len = len

\* the fonts of the application, by address; 0 is NULL.  Font 1 has glyphs
\* for 'P' and U+00E9 and spaces its characters, font 2 has no glyphs
Fonts ==
  <<[height |-> 2, default_width |-> 1, char_spacing |-> 1,
     glyphs |-> <<[codepoint |-> 80, width |-> 2], [codepoint |-> 233, width |-> 3]>>],
    [height |-> 1, default_width |-> 2, char_spacing |-> 0, glyphs |-> <<>>]>>

\* renderer_get_text_width, lines 1107-1166, with the cache: the width
\* returned and the cache afterwards
text_width(cache, f, str, length) ==
  IF f = 0 THEN [ret |-> 0, cache |-> cache]
  ELSE LET font == Fonts[f]
           len == IF length = 0 - 1 THEN Len(str) ELSE length
           hash == fnv1a_hash(str, len)
           cache_idx == CacheIdx(hash)
           m == MeasureFrom(font, str, len, 0, 0, 0, 0)
           width == m.width + SpacingBetween(font, m.char_count)
       IN  IF CacheHit(cache, f, str, len)
             THEN [ret |-> cache[cache_idx].width, cache |-> cache]
             ELSE [ret |-> width,
                   cache |-> [cache EXCEPT ![cache_idx] =
                                [font |-> f, hash |-> hash, len |-> len, width |-> width]]]

\* renderer_get_text_width: the call
renderer_get_text_width(f, str, len) ==
  /\ LET r == text_width(text_width_cache, f, str, len)
     IN  /\ text_width_cache' = r.cache
         /\ last_op' = [op |-> "get_text_width", arg |-> <<f, str, len>>, ret |-> r.ret]
  /\ UNCHANGED <<clip_rect, text, font_glyphs, pixVars,
                 inputVars, tickVars, loopVars, histVars, animVars, clockVars>>

\* renderer_draw_text, lines 1032-1061 (MU_COMMAND_TEXT): the cursor and
\* the iterations of the loop; no cursor moves for a NULL font
renderer_draw_text(f, str, pos) ==
  /\ last_op' = [op |-> "draw_text", arg |-> <<f, str, pos>>,
                 ret |-> IF f = 0 THEN [x |-> pos.x, iterations |-> 0]
                         ELSE DrawFrom(Fonts[f], str, 1, pos.x, 0)]
  /\ UNCHANGED <<clip_rect, textVars, pixVars,
                 inputVars, tickVars, loopVars, histVars, animVars, clockVars>>

\* next_utf8_codepoint called on the string at a byte that is not the NUL
decode(str, pos) ==
  /\ pos \in 1..Len(str)
  /\ last_op' = [op |-> "next_utf8_codepoint", arg |-> <<str, pos>>,
                 ret |-> next_utf8_codepoint(str, pos)]
  /\ UNCHANGED <<clip_rect, textVars, pixVars,
                 inputVars, tickVars, loopVars, histVars, animVars, clockVars>>

\* find_glyph called on a glyph table
lookup(table, codepoint) ==
  /\ last_op' = [op |-> "find_glyph", arg |-> <<table, codepoint>>,
                 ret |-> find_glyph(table, codepoint)]
  /\ UNCHANGED <<clip_rect, textVars, pixVars,
                 inputVars, tickVars, loopVars, histVars, animVars, clockVars>>

(***************************************************************************)
(* Pixel formats (zmu.c): a colour becomes a pixel value, the value is     *)
(* written to the pixel of display_buffer.  A colour and an ARGB pixel are *)
(* records of 8-bit channels.                                              *)
(***************************************************************************)
\* luminance, lines 515-518; the result is a uint8_t
luminance(color) == ((299 * color.r + 587 * color.g + 114 * color.b) \div 1000) % 256

\* color_to_pixel_mono, lines 646-650
color_to_pixel_mono(color) == IF luminance(color) > 127 THEN 255 ELSE 0

\* set_pixel_mono, lines 652-672: the bit of the pixel after the write
set_pixel_mono(bit, pixel) == IF pixel # 0 THEN 1 ELSE 0

\* color_to_pixel of src/lib/event_loop.c, lines 61-69
event_loop_color_to_pixel(format, color) ==
  IF format = "MONO01"
    THEN (IF luminance(color) > 127 THEN 1 ELSE 0)
    ELSE (IF luminance(color) > 127 THEN 0 ELSE 1)

\* set_pixel of src/lib/event_loop.c, lines 120-150: the bit of the pixel
\* after the write
event_loop_set_pixel(format, bit, pixel) ==
  IF pixel # 0 THEN (IF format = "MONO10" THEN 1 ELSE 0) ELSE bit

\* color_to_pixel_argb8888, lines 571-575
color_to_pixel_argb8888(color) == [a |-> color.a, r |-> color.r, g |-> color.g, b |-> color.b]

\* the blended channel of lines 601-603 and 712, stored in a uint8_t
Blend(src_c, src_a, dst_c, dst_a, inv_a, out_a) ==
  ((src_c * src_a + (dst_c * dst_a * inv_a) \div 255) \div out_a) % 256

\* set_pixel_argb8888, lines 577-611, with CONFIG_MICROUI_ALPHA_BLENDING:
\* the pixel after the write
set_pixel_argb8888(dst, pixel) ==
  LET src_a == pixel.a
      inv_a == 255 - src_a
      out_a == (src_a + (dst.a * inv_a) \div 255) % 65536
  IN  IF src_a = 255 THEN pixel
      ELSE IF src_a > 0 /\ out_a > 0
        THEN [a |-> out_a % 256,
              r |-> Blend(pixel.r, src_a, dst.r, dst.a, inv_a, out_a),
              g |-> Blend(pixel.g, src_a, dst.g, dst.a, inv_a, out_a),
              b |-> Blend(pixel.b, src_a, dst.b, dst.a, inv_a, out_a)]
      ELSE dst

\* color_to_pixel_al88, lines 688-691
color_to_pixel_al88(color) == [a |-> color.a, l |-> luminance(color)]

\* set_pixel_al88, lines 693-719, with CONFIG_MICROUI_ALPHA_BLENDING
set_pixel_al88(dst, pixel) ==
  LET src_a == pixel.a
      inv_a == 255 - src_a
      out_a == (src_a + (dst.a * inv_a) \div 255) % 65536
  IN  IF src_a = 255 THEN pixel
      ELSE IF src_a > 0 /\ out_a > 0
        THEN [a |-> out_a % 256, l |-> Blend(pixel.l, src_a, dst.l, dst.a, inv_a, out_a)]
      ELSE dst

\* color_to_pixel, lines 722-780, and set_pixel_unchecked, lines 781-844,
\* by the pixel format of the display: the pixel after the colour is written
WritePixel(format, dst, color) ==
  IF format \in {"MONO01", "MONO10"} THEN set_pixel_mono(dst, color_to_pixel_mono(color))
  ELSE IF format = "ARGB_8888" THEN set_pixel_argb8888(dst, color_to_pixel_argb8888(color))
  ELSE set_pixel_al88(dst, color_to_pixel_al88(color))

\* a drawing command writes the pixel in the colour
put_pixel(color) ==
  /\ last_op = NoOp
  /\ fb' = WritePixel(pixel_format, fb, color)
  /\ last_op' = [op |-> "set_pixel", arg |-> <<pixel_format, fb, color>>, ret |-> fb']
  /\ UNCHANGED <<clip_rect, textVars, pixel_format, display_width,
                 inputVars, tickVars, loopVars, histVars, animVars, clockVars>>

\* the same with the renderer of src/lib/event_loop.c, on a 1-bit display
event_loop_put_pixel(color) ==
  /\ last_op = NoOp
  /\ pixel_format \in {"MONO01", "MONO10"}
  /\ fb' = event_loop_set_pixel(pixel_format, fb,
                                event_loop_color_to_pixel(pixel_format, color))
  /\ last_op' = [op |-> "event_loop_set_pixel", arg |-> <<pixel_format, fb, color>>,
                 ret |-> fb']
  /\ UNCHANGED <<clip_rect, textVars, pixel_format, display_width,
                 inputVars, tickVars, loopVars, histVars, animVars, clockVars>>

(***************************************************************************)
(* The image blit on the bytes of display_buffer (zmu.c), in a build       *)
(* without CONFIG_MICROUI_ALPHA_BLENDING.  The buffer and the image data   *)
(* are functions from byte offsets to bytes; an image is a record          *)
(* [width, height, stride, pixel_format, data].                            *)
(***************************************************************************)
ROUND_UP(x, align) == ((x + align - 1) \div align) * align

\* DISPLAY_BYTES_PER_PIXEL, line 392, for a build with the one format
BytesPerPixel(format) == IF format = "AL_88" THEN 2 ELSE 1

\* DISPLAY_STRIDE, line 393
DISPLAY_STRIDE(width, format) == ROUND_UP(width, 8) * BytesPerPixel(format)

\* DISPLAY_BUFFER_SIZE, lines 395-396
DISPLAY_BUFFER_SIZE(width, format) ==
  (8 * BytesPerPixel(format) * ROUND_UP(width, 8) * DISPLAY_HEIGHT) \div 8

\* static uint8_t display_buffer[DISPLAY_BUFFER_SIZE], zeroed
ZeroBuffer(width, format) == [i \in 0..(DISPLAY_BUFFER_SIZE(width, format) - 1) |-> 0]

\* the buffer with the bytes of writes stored at their offsets
Stored(buf, writes) ==
  [i \in DOMAIN buf |-> IF i \in DOMAIN writes THEN writes[i] ELSE buf[i]]

\* renderer_draw_image, lines 1400-1404: the visible part of the image
VisibleOf(width, clip, pos, image) ==
  intersect_rects(intersect_rects(mu_rect(pos.x, pos.y, image.width, image.height),
                                  mu_rect(0, 0, width, DISPLAY_HEIGHT)),
                  clip)

\* renderer_draw_image, lines 1460-1477: the memcpy of each visible row
FastPath(buf, width, format, clip, pos, image) ==
  LET visible == VisibleOf(width, clip, pos, image)
      bpp == BytesPerPixel(format)
      src_x_start == visible.x - pos.x
      src_y_start == visible.y - pos.y
      bytes_to_copy == visible.w * bpp
      dst(row) == (visible.y + row) * DISPLAY_STRIDE(width, format) + visible.x * bpp
      src(row) == (src_y_start + row) * image.stride + src_x_start * bpp
      offsets == {dst(row) + i : row \in 0..(visible.h - 1), i \in 0..(bytes_to_copy - 1)}
      writes == [o \in offsets |->
                   LET row == CHOOSE r \in 0..(visible.h - 1) :
                                o - dst(r) \in 0..(bytes_to_copy - 1)
                   IN  image.data[src(row) + (o - dst(row))]]
  IN  IF visible.w = 0 \/ visible.h = 0 THEN buf ELSE Stored(buf, writes)

\* pixel_to_color, lines 1214-1257, for PIXEL_FORMAT_L_8 and PIXEL_FORMAT_AL_88:
\* src is the offset of the row in the data
pixel_to_color(data, src, offset, format) ==
  IF format = "L_8"
    THEN [r |-> data[src + offset], g |-> data[src + offset], b |-> data[src + offset],
          a |-> 255]
    ELSE [r |-> data[src + offset * 2 + 1], g |-> data[src + offset * 2 + 1],
          b |-> data[src + offset * 2 + 1], a |-> data[src + offset * 2]]

\* set_pixel_l8, lines 681-684, and set_pixel_al88 without blending, lines
\* 695-696 and 717: the bytes stored for the pixel at (x, y); the uint16_t
\* of AL_88 is stored in the byte order of the CPU
PixelBytes(width, format, little_endian, x, y, color) ==
  IF format = "L_8" THEN (y * width + x) :> luminance(color)
  ELSE LET index == (y * width + x) * 2
           lo == luminance(color)
           hi == color.a
       IN  IF little_endian THEN (index :> lo) @@ ((index + 1) :> hi)
           ELSE (index :> hi) @@ ((index + 1) :> lo)

\* renderer_draw_image, lines 1479-1493: pixel by pixel through
\* pixel_to_color, color_to_pixel and set_pixel_unchecked
RECURSIVE SlowFrom(_, _, _, _, _, _, _, _, _)
SlowFrom(buf, width, format, little_endian, visible, pos, image, row, col) ==
  IF row >= visible.h THEN buf
  ELSE IF col >= visible.w
    THEN SlowFrom(buf, width, format, little_endian, visible, pos, image, row + 1, 0)
  ELSE LET src_y == visible.y - pos.y + row
           src_x == visible.x - pos.x + col
           color == pixel_to_color(image.data, src_y * image.stride, src_x,
                                   image.pixel_format)
       IN  SlowFrom(Stored(buf, PixelBytes(width, format, little_endian,
                                           visible.x + col, visible.y + row, color)),
                    width, format, little_endian, visible, pos, image, row, col + 1)

SlowPath(buf, width, format, little_endian, clip, pos, image) ==
  SlowFrom(buf, width, format, little_endian, VisibleOf(width, clip, pos, image),
           pos, image, 0, 0)

\* renderer_draw_image, lines 1448-1460, for an image that is not 1-bit
format_matches(format, image) == image.pixel_format = format

\* renderer_draw_image (MU_COMMAND_IMAGE), lines 1386-1495, on the bytes of
\* the buffer: the first image command replayed after boot
draw_image(little_endian, clip, pos, image) ==
  /\ last_op = NoOp
  /\ fb' = IF format_matches(pixel_format, image)
             THEN FastPath(fb, display_width, pixel_format, clip, pos, image)
             ELSE SlowPath(fb, display_width, pixel_format, little_endian, clip, pos, image)
  /\ last_op' = [op |-> "draw_image", arg |-> <<little_endian, clip, pos, image>>,
                 ret |-> IF format_matches(pixel_format, image) THEN "memcpy"
                         ELSE "set_pixel"]
  /\ UNCHANGED <<clip_rect, textVars, pixel_format, display_width,
                 inputVars, tickVars, loopVars, histVars, animVars, clockVars>>

(***************************************************************************)
(* Filled rectangles on the bytes of display_buffer (zmu.c), for an opaque *)
(* colour on a display that is not 1-bit.                                  *)
(***************************************************************************)
\* the bytes set_pixel_unchecked stores for the pixels of row y of r
RowBytes(width, format, little_endian, r, y, color) ==
  LET f[n \in 0..r.w] ==
        IF n = 0 THEN <<>>
        ELSE PixelBytes(width, format, little_endian, r.x + n - 1, y, color) @@ f[n - 1]
  IN  f[r.w]

\* every pixel of the screen-clamped rectangle written with set_pixel_unchecked
EachPixel(buf, width, format, little_endian, rect, color) ==
  LET r == intersect_rects(rect, mu_rect(0, 0, width, DISPLAY_HEIGHT))
      f[n \in 0..r.h] ==
        IF n = 0 THEN buf
        ELSE Stored(f[n - 1], RowBytes(width, format, little_endian, r, r.y + n - 1, color))
  IN  f[r.h]

\* renderer_draw_rect, lines 1013-1029: the first row pixel by pixel, then
\* memcpy of row_bytes from src_row to each row below it
RowCopy(buf, width, format, little_endian, rect, color) ==
  LET r == intersect_rects(rect, mu_rect(0, 0, width, DISPLAY_HEIGHT))
      bpp == BytesPerPixel(format)
      first == Stored(buf, RowBytes(width, format, little_endian, r, r.y, color))
      src_row == r.y * DISPLAY_STRIDE(width, format) + r.x * bpp
      row_bytes == r.w * bpp
      dst_row(y) == src_row + y * DISPLAY_STRIDE(width, format)
      f[y \in 0..(r.h - 1)] ==
        IF y = 0 THEN first
        ELSE Stored(f[y - 1], [o \in dst_row(y)..(dst_row(y) + row_bytes - 1) |->
                                 f[y - 1][src_row + (o - dst_row(y))]])
  IN  IF r.w = 0 \/ r.h = 0 THEN buf ELSE f[r.h - 1]

\* renderer_draw_rect (MU_COMMAND_RECT), lines 977-1030, on the bytes of the
\* buffer, in an opaque colour
draw_rect(little_endian, rect, color) ==
  /\ last_op = NoOp
  /\ fb' = RowCopy(fb, display_width, pixel_format, little_endian, rect, color)
  /\ last_op' = [op |-> "draw_rect", arg |-> <<little_endian, rect, color>>, ret |-> "memcpy"]
  /\ UNCHANGED <<clip_rect, textVars, pixel_format, display_width,
                 inputVars, tickVars, loopVars, histVars, animVars, clockVars>>

\* renderer_clear, lines 1185-1197: the row copy over the whole display
renderer_clear(little_endian, color) ==
  /\ last_op = NoOp
  /\ fb' = RowCopy(fb, display_width, pixel_format, little_endian,
                   mu_rect(0, 0, display_width, DISPLAY_HEIGHT), color)
  /\ last_op' = [op |-> "clear",
                 arg |-> <<little_endian, mu_rect(0, 0, display_width, DISPLAY_HEIGHT), color>>,
                 ret |-> "memcpy"]
  /\ UNCHANGED <<clip_rect, textVars, pixel_format, display_width,
                 inputVars, tickVars, loopVars, histVars, animVars, clockVars>>

(***************************************************************************)
(* Monochrome displays (zmu.c): one bit per pixel, eight pixels of a       *)
(* column (MONO_VTILED) or of a row (MONO_HTILED) to the byte.  A store    *)
(* past the end of display_buffer lands in whatever the linker placed      *)
(* behind it; the model keeps the offsets of all stores and the bytes of   *)
(* the buffer.                                                             *)
(***************************************************************************)
\* DISPLAY_BUFFER_SIZE, lines 395-396, with CONFIG_MICROUI_BITS_PER_PIXEL = 1
MONO_BUFFER_SIZE(width) == (1 * ROUND_UP(width, 8) * DISPLAY_HEIGHT) \div 8

\* set_pixel_mono, lines 657-664: the offset of the byte and the bit in it
MonoByte(width, vtiled, x, y) ==
  IF vtiled THEN x + (y \div 8) * width
  ELSE (x \div 8) + y * (width \div 8)

MonoBit(vtiled, msb_first, x, y) ==
  LET n == IF vtiled THEN y % 8 ELSE x % 8
  IN  IF msb_first THEN 7 - n ELSE n

\* set_pixel_mono, lines 666-670: *buf |= BIT(bit) or *buf &= ~BIT(bit)
MonoStore(byte, bit, pixel) ==
  LET set == (byte \div (2 ^ bit)) % 2 = 1
  IN  IF pixel # 0 THEN (IF set THEN byte ELSE byte + 2 ^ bit)
      ELSE (IF set THEN byte - 2 ^ bit ELSE byte)

\* renderer_draw_rect, lines 981-998: the MONO path writes every pixel of
\* the screen-clamped rectangle with set_pixel_unchecked; the buffer it
\* leaves and the offsets of the bytes it stored to
MonoFill(buf, width, vtiled, msb_first, rect, pixel) ==
  LET r == intersect_rects(rect, mu_rect(0, 0, width, DISPLAY_HEIGHT))
      px(n) == r.x + ((n - 1) % r.w)
      py(n) == r.y + ((n - 1) \div r.w)
      at(n) == MonoByte(width, vtiled, px(n), py(n))
      f[n \in 0..(r.w * r.h)] ==
        IF n = 0 THEN buf
        ELSE IF at(n) \in DOMAIN buf
          THEN [f[n - 1] EXCEPT ![at(n)] =
                  MonoStore(@, MonoBit(vtiled, msb_first, px(n), py(n)), pixel)]
          ELSE f[n - 1]
  IN  IF r.w = 0 \/ r.h = 0 THEN [buf |-> buf, stores |-> {}]
      ELSE [buf |-> f[r.w * r.h], stores |-> {at(n) : n \in 1..(r.w * r.h)}]

\* renderer_draw_rect (MU_COMMAND_RECT), lines 977-998, on a MONO display
draw_rect_mono(msb_first, rect, color) ==
  /\ last_op = NoOp
  /\ LET m == MonoFill(fb, display_width, pixel_format = "MONO_VTILED", msb_first, rect,
                       color_to_pixel_mono(color))
     IN  /\ fb' = m.buf
         /\ last_op' = [op |-> "draw_rect_mono", arg |-> <<msb_first, rect, color>>,
                        ret |-> m.stores]
  /\ UNCHANGED <<clip_rect, textVars, pixel_format, display_width,
                 inputVars, tickVars, loopVars, histVars, animVars, clockVars>>

(***************************************************************************)
(* Missing fonts and images (zmu.c, image.h).  A font is its index in      *)
(* Fonts, 0 being the NULL font; the NULL image is NULL_IMAGE.             *)
(***************************************************************************)
NULL_IMAGE == [null |-> TRUE]

\* renderer_get_text_height, lines 1168-1176
renderer_get_text_height(f) ==
  /\ last_op' = [op |-> "get_text_height", arg |-> f,
                 ret |-> IF f = 0 THEN 0 ELSE Fonts[f].height]
  /\ UNCHANGED <<clip_rect, textVars, pixVars,
                 inputVars, tickVars, loopVars, histVars, animVars, clockVars>>

\* renderer_draw_image, lines 1386-1390: a NULL image returns at once, any
\* other image is drawn
renderer_draw_image_or_null(little_endian, clip, pos, image) ==
  IF image = NULL_IMAGE
    THEN /\ last_op = NoOp
         /\ last_op' = [op |-> "draw_image", arg |-> <<little_endian, clip, pos, image>>,
                        ret |-> "return"]
         /\ UNCHANGED <<clip_rect, textVars, pixVars,
                        inputVars, tickVars, loopVars, histVars, animVars, clockVars>>
    ELSE draw_image(little_endian, clip, pos, image)

\* what reading the width and the height through a NULL pointer can give:
\* a fault, or whatever the words at addresses 0 and 4 hold
NullRead == {[fault |-> TRUE, width |-> 0, height |-> 0]}
              \cup {[fault |-> FALSE, width |-> w, height |-> h] : w, h \in 0..1}

\* mu_get_img_dimensions, image.h lines 31-36: the descriptor is read
\* without a test of the pointer
mu_get_img_dimensions(image) ==
  /\ \E r \in IF image = NULL_IMAGE THEN NullRead
              ELSE {[fault |-> FALSE, width |-> image.width, height |-> image.height]} :
       last_op' = [op |-> "get_img_dimensions", arg |-> image, ret |-> r]
  /\ UNCHANGED <<clip_rect, textVars, pixVars,
                 inputVars, tickVars, loopVars, histVars, animVars, clockVars>>

(***************************************************************************)
(* Interaction (microui.c, samples/watch/src/main.c): hover and focus of   *)
(* the Context, and the buttons of the music player.  An id is the hash of *)
(* the button's name; the id 0 is no element.                              *)
(***************************************************************************)
MU_RES_SUBMIT == 2

\* rect_overlaps_vec2 of mu_mouse_over: the point p is inside r
rect_overlaps_vec2(r, p) ==
  p[1] >= r.x /\ p[1] < r.x + r.w /\ p[2] >= r.y /\ p[2] < r.y + r.h

\* mu_update_control: the element under the pointer becomes hover while no
\* button is down; a press while hover is id gives id the focus, which it
\* keeps; hover is given up when the pointer has left
mu_update_control(ctx, id, rect, opt) ==
  LET mouseover == rect_overlaps_vec2(rect, ctx.mouse_pos)
      hovered == IF mouseover /\ ctx.mouse_down = 0 THEN [ctx EXCEPT !.hover = id] ELSE ctx
  IN  IF hovered.hover = id /\ hovered.mouse_pressed # 0
        THEN [hovered EXCEPT !.focus = id]
        ELSE IF hovered.hover = id /\ ~mouseover
               THEN [hovered EXCEPT !.hover = U32(0, 0)]
               ELSE hovered

\* mu_circular_button, main.c lines 185-202: the Context it leaves and its
\* result; r is the cell mu_layout_next gave it
mu_circular_button(ctx, id, r, radius) ==
  LET cx == r.x + (r.w \div 2)
      cy == r.y + (r.h \div 2)
      hit_rect == [x |-> cx - radius, y |-> cy - radius, w |-> radius * 2, h |-> radius * 2]
      c == mu_update_control(ctx, id, hit_rect, 0)
  IN  [ctx |-> c,
       res |-> IF c.mouse_pressed = MU_MOUSE_LEFT /\ c.focus = id THEN MU_RES_SUBMIT ELSE 0]

\* the buttons of draw_music_player, main.c lines 481-503: "prev" and "next"
\* with the cells of their row
ButtonRadius == 1

ButtonIds == <<mu_get_id(<<<<112, 114, 101, 118>>>>), mu_get_id(<<<<110, 101, 120, 116>>>>)>>

ButtonCells == <<[x |-> 0, y |-> 0, w |-> 1, h |-> 1], [x |-> 2, y |-> 0, w |-> 1, h |-> 1]>>

draw_music_player(ctx) ==
  LET prev == mu_circular_button(ctx, ButtonIds[1], ButtonCells[1], ButtonRadius)
      next == mu_circular_button(prev.ctx, ButtonIds[2], ButtonCells[2], ButtonRadius)
  IN  [ctx |-> next.ctx, res |-> <<prev.res, next.res>>]

\* mu_handle_tick after the input drain (lines 1672-1684) with the frame
\* callback of the watch sample, and the rest of microui_loop_work
mu_handle_tick_buttons ==
  /\ tick_pc = "frame"
  /\ frame_cb # "NULL"
  /\ LET drawn == draw_music_player(mu_ctx)
         ctx1 == process_frame(drawn.ctx, FramePlain)
         cur == mu_get_id(ctx1.command_list)
         redraw == (~cfg_lazy) \/ mu_needs_redraw(cur, previous_command_hash)
         steps == mu_render(Len(ctx1.command_list))
         r == Rendered(ctx1.command_list, steps, display)
         cbLog == <<Entry("cb", tickNo, 0, mu_ctx.mouse_pos[1], mu_ctx.mouse_pos[2], "none",
                          mu_ctx)>>
         resLog == [i \in 1..Len(drawn.res) |->
                      Entry(IF drawn.res[i] = MU_RES_SUBMIT THEN "submit" ELSE "quiet", tickNo,
                            i, mu_ctx.mouse_pos[1], mu_ctx.mouse_pos[2], "none", drawn.ctx)]
     IN /\ mu_ctx' = ctx1
        /\ previous_command_hash' =
             IF cfg_lazy /\ redraw THEN HashRemembered(cur, previous_command_hash)
             ELSE previous_command_hash
        /\ IF redraw
             THEN /\ display_buffer' = r.buf
                  /\ display' = r.disp
                  /\ log' = log \o cbLog \o resLog \o RenderLog(steps, tickNo, ctx1)
             ELSE /\ UNCHANGED <<display_buffer, display>>
                  /\ log' = log \o cbLog \o resLog
        /\ tick_ret' = redraw
  /\ tick_pc' = "idle"
  /\ \E d \in tick_durations :
       /\ uptime' = uptime + d
       /\ wait_time' = wait_time_of(uptime' - current_time)
  /\ loop_work' = "delayed"
  /\ UNCHANGED <<inputVars, frame_cb, cfg_lazy, app_frames, tickNo, wq_flags, app_pc,
                 stop_ret, setup_ret, nextSeq, puts, animVars, drawVars>>
  /\ UNCHANGED <<current_time, tick_durations>>

(***************************************************************************)
(* The command list with root containers (microui.c) and its replay by     *)
(* mu_render.  A command is a record; a jump holds the index of the        *)
(* command it leads to, Len + 1 being the end of the list.  A container is *)
(* [zindex, count]: its z-index and the number of commands it pushes.      *)
(***************************************************************************)
JumpCommand(dst) == [type |-> "MU_COMMAND_JUMP", dst |-> dst, container |-> 0, index |-> 0]

DrawCommand(c, i) == [type |-> "MU_COMMAND_RECT", dst |-> 0, container |-> c, index |-> i]

\* the commands container c pushes, in push order
PushedBy(containers, c) == [i \in 1..containers[c].count |-> DrawCommand(c, i)]

\* begin_root_container .. end_root_container of the containers in begin
\* order: each writes a head jump, its commands and a tail jump; the head
\* jump leads past the container until mu_end links it
command_list(containers) ==
  LET f[k \in 0..Len(containers)] ==
        IF k = 0 THEN <<>>
        ELSE LET before == f[k - 1]
                 size == Len(before) + containers[k].count + 2
             IN  before \o <<JumpCommand(size + 1)>> \o PushedBy(containers, k)
                        \o <<JumpCommand(0)>>
  IN  f[Len(containers)]

\* cnt->head and cnt->tail: the indices of the two jumps of container c
head(containers, c) ==
  LET f[k \in 0..c] == IF k = 0 THEN 1 ELSE f[k - 1] + (IF k = 1 THEN 0 ELSE containers[k - 1].count + 2)
  IN  f[c]

tail(containers, c) == head(containers, c) + containers[c].count + 1

\* a root list left in begin order
root_list_unsorted(containers) == [i \in 1..Len(containers) |-> i]

\* mu_end: the root list sorted by z-index, lowest first
root_list(containers) ==
  [i \in 1..Len(containers) |->
     CHOOSE c \in 1..Len(containers) :
       Cardinality({d \in 1..Len(containers) : containers[d].zindex < containers[c].zindex})
         = i - 1]

\* mu_end: the jumps are set so that the list is walked in root-list order:
\* the first command leads into the first root, each tail into the next
\* root, the last tail to the end of the list
mu_end(containers) ==
  LET buf == command_list(containers)
      roots == root_list(containers)
      n == Len(roots)
      f[i \in 0..n] ==
        IF i = 0 THEN buf
        ELSE LET linked == [f[i - 1] EXCEPT
                              ![IF i = 1 THEN 1 ELSE tail(containers, roots[i - 1])].dst =
                                 head(containers, roots[i]) + 1]
             IN  IF i = n
                   THEN [linked EXCEPT ![tail(containers, roots[i])].dst = Len(buf) + 1]
                   ELSE linked
  IN  f[n]

\* mu_next_command from index pos on: the commands handed to the caller, in
\* order, and whether the end of the list was reached within fuel steps
RECURSIVE next_command(_, _, _)
next_command(buf, pos, fuel) ==
  IF pos > Len(buf) THEN [visited |-> <<>>, done |-> TRUE]
  ELSE IF fuel = 0 THEN [visited |-> <<>>, done |-> FALSE]
  ELSE IF buf[pos].type = "MU_COMMAND_JUMP"
         THEN next_command(buf, buf[pos].dst, fuel - 1)
         ELSE LET rest == next_command(buf, pos + 1, fuel - 1)
              IN  [rest EXCEPT !.visited = <<buf[pos]>> \o @]

\* mu_render, lines 1605-1650, after a frame callback that opened the
\* containers: every command mu_next_command hands out is replayed
replay_frame(containers) ==
  /\ last_op = NoOp
  /\ LET buf == mu_end(containers)
     IN  last_op' = [op |-> "render", arg |-> containers,
                     ret |-> next_command(buf, 1, 2 * Len(buf) + 2)]
  /\ UNCHANGED <<clip_rect, textVars, pixVars,
                 inputVars, tickVars, loopVars, histVars, animVars, clockVars>>

(***************************************************************************)
(* Ids (microui.c): the id stack of the Context and mu_get_id on it.  The  *)
(* data of an id is the sequence of its bytes.                             *)
(***************************************************************************)
\* an id that also depends on the frame it is computed in
get_id_framed(ctx, frames, data) ==
  LET init == IF Len(ctx.id_stack) > 0 THEN ctx.id_stack[Len(ctx.id_stack)] ELSE HASH_INITIAL
  IN  FnvFold(init, data \o <<frames % 256>>)

\* mu_get_id(ctx, data, size), with the frame counter of the Context passed
\* beside it: FNV-1a over the data, seeded with the top of
\* the id stack, or with the FNV offset basis when the stack is empty
get_id(ctx, frames, data) ==
  LET init == IF Len(ctx.id_stack) > 0 THEN ctx.id_stack[Len(ctx.id_stack)] ELSE HASH_INITIAL
  IN  FnvFold(init, data)

\* a call of mu_get_id by a widget; the first call of a behaviour is kept
mu_get_id_call(data) ==
  /\ last_op' = [op |-> "get_id", arg |-> <<mu_ctx.id_stack, data>>,
                 ret |-> get_id(mu_ctx, frame, data)]
  /\ log' = IF log = <<>>
              THEN <<[ev |-> "get_id", stack |-> mu_ctx.id_stack, data |-> data,
                      id |-> get_id(mu_ctx, frame, data), frame |-> frame,
                      focus |-> mu_ctx.focus]>>
              ELSE log
  /\ UNCHANGED <<clip_rect, textVars, pixVars, inputVars, tickVars, loopVars, nextSeq, puts,
                 animVars, clockVars>>

\* mu_push_id(ctx, data, size): the id of the data goes on the stack
mu_push_id(data) ==
  /\ Len(mu_ctx.id_stack) < MaxIdStack
  /\ mu_ctx' = [mu_ctx EXCEPT !.id_stack = Append(@, get_id(mu_ctx, frame, data))]
  /\ last_op' = NoOp
  /\ UNCHANGED <<clip_rect, textVars, pixVars, inputVars, frame_cb, previous_command_hash,
                 display_buffer, display, cfg_lazy, app_frames, tick_pc, tickNo, tick_ret,
                 loopVars, histVars, animVars, clockVars>>

\* mu_pop_id(ctx)
mu_pop_id ==
  /\ Len(mu_ctx.id_stack) > 0
  /\ mu_ctx' = [mu_ctx EXCEPT !.id_stack = SubSeq(@, 1, Len(@) - 1)]
  /\ last_op' = NoOp
  /\ UNCHANGED <<clip_rect, textVars, pixVars, inputVars, frame_cb, previous_command_hash,
                 display_buffer, display, cfg_lazy, app_frames, tick_pc, tickNo, tick_ret,
                 loopVars, histVars, animVars, clockVars>>

\* mu_set_focus(ctx, id)
mu_set_focus(id) ==
  /\ mu_ctx.focus # id
  /\ mu_ctx' = [mu_ctx EXCEPT !.focus = id]
  /\ last_op' = NoOp
  /\ UNCHANGED <<clip_rect, textVars, pixVars, inputVars, frame_cb, previous_command_hash,
                 display_buffer, display, cfg_lazy, app_frames, tick_pc, tickNo, tick_ret,
                 loopVars, histVars, animVars, clockVars>>

(***************************************************************************)
(* Layout (microui.h, microui.c): the widths of the cells of a row.  A     *)
(* width is a fixed number of pixels, -1 for a cell that fills, or         *)
(* MU_FLEX(weight).                                                        *)
(***************************************************************************)
\* microui.h lines 39-42
MU_FLEX_BASE == 0 - 65536

MU_FLEX(x) == MU_FLEX_BASE - x

\* a test that takes only the values below MU_FLEX_BASE for flex entries
MU_IS_FLEX_below(w) == w < MU_FLEX_BASE

MU_IS_FLEX(w) == w <= MU_FLEX_BASE

MU_FLEX_WEIGHT(w) == (0 - w) - (0 - MU_FLEX_BASE)

\* the macros on int, as the widths of mu_layout_row are (microui.h line 333):
\* a result outside INT_MIN..INT_MAX is signed overflow, after which the
\* build may trap or go on with the wrapped value
INT_MAX == (2 ^ 30 - 1) + 2 ^ 30
INT_MIN == (0 - INT_MAX) - 1

\* a - b on int
IntSub(a, b) ==
  IF b > 0 /\ a < INT_MIN + b
    THEN {[trap |-> TRUE, value |-> 0],
          [trap |-> FALSE, value |-> (((a + INT_MAX) - b) + INT_MAX) + 2]}
  ELSE IF b < 0 /\ a > INT_MAX + b
    THEN {[trap |-> TRUE, value |-> 0],
          [trap |-> FALSE, value |-> (((a - INT_MAX) - b) - INT_MAX) - 2]}
  ELSE {[trap |-> FALSE, value |-> a - b]}

\* MU_FLEX(x), line 40
MU_FLEX_int(x) == IntSub(MU_FLEX_BASE, x)

\* MU_FLEX_WEIGHT(w), line 42: -(w) - (-MU_FLEX_BASE)
MU_FLEX_WEIGHT_int(w) ==
  UNION {IF n.trap THEN {n} ELSE IntSub(n.value, 0 - MU_FLEX_BASE) : n \in IntSub(0, w)}

\* a weight is encoded with MU_FLEX, tested with MU_IS_FLEX and decoded with
\* MU_FLEX_WEIGHT
flex_round_trip(x) ==
  /\ last_op = NoOp
  /\ \E w \in MU_FLEX_int(x) :
       \E weight \in IF w.trap THEN {w} ELSE MU_FLEX_WEIGHT_int(w.value) :
         last_op' = [op |-> "MU_FLEX", arg |-> x,
                     ret |-> [trap |-> w.trap \/ weight.trap, w |-> w.value,
                              is_flex |-> MU_IS_FLEX(w.value), weight |-> weight.value]]
  /\ UNCHANGED <<clip_rect, textVars, pixVars,
                 inputVars, tickVars, loopVars, histVars, animVars, clockVars>>

\* a cell that takes a share of the space the fixed cells leave, its weight
IsFlexible(w) == w = 0 - 1 \/ MU_IS_FLEX(w)

WeightOf(w) == IF MU_IS_FLEX(w) THEN MU_FLEX_WEIGHT(w) ELSE IF w = 0 - 1 THEN 1 ELSE 0

\* the sum of f over the first n entries of a sequence
SumTo(f(_), seq, n) ==
  LET g[i \in 0..n] == IF i = 0 THEN 0 ELSE g[i - 1] + f(seq[i]) IN g[n]

FixedOf(w) == IF IsFlexible(w) THEN 0 ELSE w

\* the share of a flexible cell: the space left, by weight, rounded down
ShareOf(widths, available, i) ==
  LET remaining == available - SumTo(FixedOf, widths, Len(widths))
  IN  CDiv(remaining * WeightOf(widths[i]), SumTo(WeightOf, widths, Len(widths)))

\* a row whose last flexible cell gets its share like the others
layout_next_share(widths, available, i) ==
  IF IsFlexible(widths[i]) THEN ShareOf(widths, available, i) ELSE widths[i]

\* the width of cell i that mu_layout_next returns after
\* mu_layout_row(ctx, Len(widths), widths, height) on a row of the available
\* width: the last flexible cell takes what the other cells leave
layout_next(widths, available, i) ==
  LET flexible == {j \in 1..Len(widths) : IsFlexible(widths[j])}
      last == CHOOSE j \in flexible : \A k \in flexible : k <= j
      before == LET g[j \in 0..Len(widths)] ==
                      IF j = 0 THEN 0
                      ELSE g[j - 1] + (IF j = last THEN 0
                                       ELSE IF IsFlexible(widths[j])
                                              THEN ShareOf(widths, available, j)
                                              ELSE widths[j])
                IN  g[Len(widths)]
  IN  IF ~IsFlexible(widths[i]) THEN widths[i]
      ELSE IF i = last THEN available - before
      ELSE ShareOf(widths, available, i)

\* an entry of the widths of a row: whether MU_IS_FLEX takes it for a flex
\* entry, and the weight MU_FLEX_WEIGHT decodes from it
width_entry(w) ==
  /\ last_op = NoOp
  /\ \E weight \in MU_FLEX_WEIGHT_int(w) :
       last_op' = [op |-> "entry", arg |-> w,
                   ret |-> [trap |-> weight.trap, is_flex |-> MU_IS_FLEX(w),
                            weight |-> weight.value]]
  /\ UNCHANGED <<clip_rect, textVars, pixVars,
                 inputVars, tickVars, loopVars, histVars, animVars, clockVars>>

\* mu_layout_row followed by the mu_layout_next calls of its cells
mu_layout_row(widths, available) ==
  /\ last_op = NoOp
  /\ last_op' = [op |-> "layout_row", arg |-> <<widths, available>>,
                 ret |-> [i \in 1..Len(widths) |-> layout_next(widths, available, i)]]
  /\ UNCHANGED <<clip_rect, textVars, pixVars,
                 inputVars, tickVars, loopVars, histVars, animVars, clockVars>>

(***************************************************************************)
(* Setup (zmu.c).                                                          *)
(***************************************************************************)
\* what renderer_init (lines 957-975, display device ready) and mu_init leave, and the queue
\* after k_work_queue_init
SetupDone ==
  /\ clip_rect' = display_rect
  /\ fb' = 0
  /\ display_buffer' = <<>>
  /\ mu_ctx' = InitCtx
  /\ frame' = 0
  /\ curr_time_ms' = U32(0, 0)
  /\ anim_pool' = [i \in 1..MU_ANIM_POOL_SIZE |-> [id |-> 0, last_update |-> 0]]
  /\ anim_states' = [i \in 1..MU_ANIM_POOL_SIZE |-> mu_AnimState0]
  /\ wq_flags' = {}

\* a setup that tests the callback after it has initialised
mu_setup_late_test(cb) ==
  /\ frame_cb' = cb
  /\ SetupDone
  /\ setup_ret' = IF cb = "NULL" THEN "-EINVAL" ELSE "0"
  /\ app_pc' = IF cb = "NULL" THEN app_pc ELSE "setup"
  /\ UNCHANGED <<inputVars, previous_command_hash, display, cfg_lazy, app_frames, tick_pc,
                 tickNo, tick_ret, loop_work, stop_ret, histVars, clockVars>>
  /\ UNCHANGED <<anim_call, anim_calls, last_op, textVars, pixel_format, display_width>>

\* mu_setup, lines 1724-1743
mu_setup(cb) ==
  /\ IF cb = "NULL"
       THEN /\ setup_ret' = "-EINVAL"
            /\ UNCHANGED <<frame_cb, display_buffer, mu_ctx, wq_flags, app_pc, clip_rect, fb,
                           frame, curr_time_ms, anim_pool, anim_states>>
       ELSE /\ frame_cb' = cb
            /\ SetupDone
            /\ setup_ret' = "0"
            /\ app_pc' = "setup"
  /\ UNCHANGED <<inputVars, previous_command_hash, display, cfg_lazy, app_frames, tick_pc,
                 tickNo, tick_ret, loop_work, stop_ret, histVars, clockVars>>
  /\ UNCHANGED <<anim_call, anim_calls, last_op, textVars, pixel_format, display_width>>

(***************************************************************************)
(* Initial states.                                                         *)
(***************************************************************************)
\* samples that arrived before the loop was started: synced INPUT_ABS_X
\* reports at the origin, one short of filling the queue
Prefill == [i \in 1..(MSGQ_MAX_MSGS - 1) |-> Queued(NoInput, i)]

PrefillLog == [i \in 1..(MSGQ_MAX_MSGS - 1) |->
                 PutEntry("put", i, NoInput)]

\* a tap that arrived before the loop was started: press and release at (1, 1)
Tap == <<[x |-> 1, y |-> 1, mouse_button |-> MU_MOUSE_LEFT, down |-> TRUE, up |-> FALSE,
          seq |-> 1],
         [x |-> 1, y |-> 1, mouse_button |-> MU_MOUSE_LEFT, down |-> FALSE, up |-> TRUE,
          seq |-> 2]>>

TapLog == [i \in 1..2 |-> PutEntry("put", i, Tap[i])]

AnimIdle ==
  /\ frame = 0
  /\ curr_time_ms = U32(0, 0)
  /\ anim_pool = [i \in 1..MU_ANIM_POOL_SIZE |-> [id |-> 0, last_update |-> 0]]
  /\ anim_states = [i \in 1..MU_ANIM_POOL_SIZE |-> mu_AnimState0]
  /\ anim_call = NoCall
  /\ anim_calls = 0

\* static mu_Rect clip_rect = {0, 0, 0, 0}; no renderer call made
TextIdle ==
  /\ text_width_cache = [i \in 1..TEXT_WIDTH_CACHE_SIZE |-> NoEntry]
  /\ text = <<>>
  /\ font_glyphs = <<>>

\* a zeroed display_buffer
PixIdle ==
  /\ pixel_format = "MONO01"
  /\ display_width = DISPLAY_WIDTH
  /\ fb = 0

DrawIdle ==
  /\ clip_rect = [x |-> 0, y |-> 0, w |-> 0, h |-> 0]
  /\ last_op = NoOp
  /\ TextIdle
  /\ PixIdle

TickIdle ==
  /\ mu_input = NoInput
  /\ cb_mouse_pressed = FALSE
  /\ prod_pc = "idle"
  /\ evCount = 0
  /\ pending_input = Queued(NoInput, 0)
  /\ pending_input_valid = FALSE
  /\ mu_ctx = InitCtx
  /\ frame_cb = "NULL"
  /\ previous_command_hash = U32(0, 0)
  /\ display_buffer = <<>>
  /\ display = [shown |-> FALSE, list |-> <<>>]
  /\ tick_pc = "idle"
  /\ tickNo = 0
  /\ tick_ret = FALSE
  /\ wq_flags = {}
  /\ loop_work = "idle"
  /\ app_pc = "boot"
  /\ stop_ret = "none"
  /\ setup_ret = "none"

ClockIdle ==
  /\ uptime = 0
  /\ current_time = 0
  /\ wait_time = 0
  /\ tick_durations = {0}

vars == <<inputVars, tickVars, loopVars, histVars, animVars, drawVars, clockVars>>

(***************************************************************************)
(* Spec: the input hand-off.  The producer runs concurrently with the      *)
(* event loop; the build redraws every tick and the application draws one  *)
(* frame.                                                                  *)
(***************************************************************************)
Init ==
  /\ TickIdle
  /\ ClockIdle
  /\ AnimIdle
  /\ DrawIdle
  /\ cfg_lazy = FALSE
  /\ app_frames = {FramePlain}
  /\ log = <<>>
  /\ \/ input_events = <<>> /\ nextSeq = 1 /\ puts = <<>> /\ touch_edges = NoEdges
     \/ input_events = Prefill /\ nextSeq = MSGQ_MAX_MSGS /\ puts = PrefillLog /\ touch_edges = NoEdges

Next ==
  \/ \E code \in EventCodes : \E value \in EventValues(code) : \E sync \in BOOLEAN :
       input_callback(code, value, sync)
  \/ k_msgq_put_wakeup
  \/ app_pc = "boot" /\ \E cb \in {"NULL", "process_frame"} : mu_setup(cb)
  \/ mu_event_loop_start
  \/ microui_loop_work_begin
  \/ drain_input_event
  \/ drain_input_empty
  \/ mu_handle_tick_frame

Spec == Init /\ [][Next]_vars

\* LiveSpec: Spec with a queue thread that runs its work item when it is
\* due and takes every step of the running handler, and a kernel that wakes
\* the producer blocked in k_msgq_put once the queue has room
LiveSpec ==
  /\ Spec
  /\ WF_vars(microui_loop_work_begin)
  /\ WF_vars(drain_input_event)
  /\ WF_vars(drain_input_empty)
  /\ WF_vars(mu_handle_tick_frame)
  /\ WF_vars(k_msgq_put_wakeup)

(***************************************************************************)
(* LoopSpec: the event loop and the lazy redraw.  The producer is quiet     *)
(* once the loop runs (a tap may be waiting on the queue); the             *)
(* application draws any of the frames, the build is with or without       *)
(* CONFIG_MICROUI_LAZY_REDRAW, and the application may stop the loop.      *)
(***************************************************************************)
LoopInit ==
  /\ TickIdle
  /\ ClockIdle
  /\ AnimIdle
  /\ DrawIdle
  /\ cfg_lazy \in BOOLEAN
  /\ app_frames = Frames
  /\ log = <<>>
  /\ \/ input_events = <<>> /\ nextSeq = 1 /\ puts = <<>> /\ touch_edges = NoEdges
     \/ input_events = Tap /\ nextSeq = 3 /\ puts = TapLog /\ touch_edges = [pressed |-> 1, released |-> 1, synced |-> TRUE]

LoopNext ==
  \/ app_pc = "boot" /\ \E cb \in {"NULL", "process_frame"} : mu_setup(cb)
  \/ mu_event_loop_start
  \/ mu_event_loop_stop
  \/ microui_loop_work_begin
  \/ drain_input_event
  \/ drain_input_empty
  \/ mu_handle_tick_frame

LoopSpec == LoopInit /\ [][LoopNext]_vars

(***************************************************************************)
(* AnimSpec: the animation calls of an application over a few frames.      *)
(* The clock moves by half a duration, a whole duration, or 500 ms short   *)
(* of a whole turn of the 32-bit counter.                                  *)
(***************************************************************************)
AnimIds == 1..(MU_ANIM_POOL_SIZE + 1)

ClockSteps == {U32(0, 500), U32(0, 1000), U32(65535, 65036)}

\* <<start, end, duration_ms, easing, loop>>
AnimTuples == {<<Real(0), Real(100), 1000, "NULL", FALSE>>,
               <<Real(0), Real(100), 1000, "ease_linear", TRUE>>,
               <<Real(0), Real(100), 1000, "ease_in_quad", FALSE>>,
               <<Real(0), Real(100), 0, "ease_linear", FALSE>>,
               <<Real(33554432), Real(1), 1000, "ease_linear", FALSE>>,
               <<Real(33554432), Real(1), 1000, "ease_linear", TRUE>>}

AnimInit ==
  /\ TickIdle
  /\ ClockIdle
  /\ AnimIdle
  /\ DrawIdle
  /\ cfg_lazy = FALSE
  /\ app_frames = {FramePlain}
  /\ input_events = <<>> /\ nextSeq = 1 /\ log = <<>> /\ puts = <<>> /\ touch_edges = NoEdges

AnimNext ==
  \/ \E step \in ClockSteps : mu_begin(step)
  \/ \E id \in AnimIds : \E a \in AnimTuples : mu_anim_ex(id, a[1], a[2], a[3], a[4], a[5])
  \/ \E id \in AnimIds : mu_anim_done(id)
  \/ \E id \in AnimIds : mu_anim_reset(id)

AnimSpec == AnimInit /\ [][AnimNext]_vars

(***************************************************************************)
(* The animation pool over frames (PoolSpec): the calls of AnimSpec with   *)
(* one looping and one non-looping animation and a clock that advances by  *)
(* half a duration per frame.                                              *)
(***************************************************************************)
PoolTuples == {<<Real(0), Real(100), 1000, "ease_linear", FALSE>>,
               <<Real(0), Real(100), 1000, "ease_linear", TRUE>>}

PoolInit == AnimInit

PoolNext ==
  \/ mu_begin(U32(0, 500))
  \/ \E id \in AnimIds : \E a \in PoolTuples : mu_anim_ex(id, a[1], a[2], a[3], a[4], a[5])
  \/ \E id \in AnimIds : mu_anim_done(id)
  \/ \E id \in AnimIds : mu_anim_reset(id)

PoolSpec == PoolInit /\ [][PoolNext]_vars

(***************************************************************************)
(* InstantSpec: the animation calls with duration_ms = 0, as                *)
(* mu_anim_speed_to_time returns for a speed that is not positive.         *)
(***************************************************************************)
InstantTuples == {<<Real(0), Real(100), 0, "ease_linear", FALSE>>,
                  <<Real(0), Real(100), 0, "ease_in_quad", TRUE>>,
                  <<Real(33554432), Real(1), 0, "ease_linear", FALSE>>}

InstantInit == AnimInit

InstantNext ==
  \/ mu_begin(U32(0, 500))
  \/ \E id \in AnimIds : \E a \in InstantTuples : mu_anim_ex(id, a[1], a[2], a[3], a[4], a[5])
  \/ \E id \in AnimIds : mu_anim_done(id)

InstantSpec == InstantInit /\ [][InstantNext]_vars

(***************************************************************************)
(* RenderSpec: the replay of command lists.  The renderer is initialised   *)
(* (renderer_init, lines 957-975: the clip rectangle is the display) and   *)
(* the commands of any list are replayed one after another, with           *)
(* coordinates from one pixel outside the display on every side.           *)
(***************************************************************************)
XCoords == (0 - 1)..(DISPLAY_WIDTH + 1)
YCoords == (0 - 1)..(DISPLAY_HEIGHT + 1)

Points == {mu_vec2(x, y) : x \in XCoords, y \in YCoords}

\* the corners and the centre lines: vertices of triangles
FarPoints == {mu_vec2(x, y) : x \in {0 - 1, 1, DISPLAY_WIDTH + 1},
                              y \in {0 - 1, 1, DISPLAY_HEIGHT + 1}}

Rects == {mu_rect(x, y, w, h) : x \in XCoords, y \in YCoords,
                                w \in 0..(DISPLAY_WIDTH + 2), h \in 0..(DISPLAY_HEIGHT + 2)}

IconRects == {r \in Rects : r.w = r.h /\ r.w \in {0, DISPLAY_WIDTH, DISPLAY_WIDTH + 2}}

Icons == {"MU_ICON_CLOSE", "MU_ICON_CHECK", "MU_ICON_COLLAPSED", "MU_ICON_EXPANDED"}

RenderInit ==
  /\ TickIdle
  /\ ClockIdle
  /\ AnimIdle
  /\ clip_rect = display_rect
  /\ last_op = NoOp
  /\ TextIdle
  /\ PixIdle
  /\ cfg_lazy = FALSE
  /\ app_frames = {FramePlain}
  /\ input_events = <<>> /\ nextSeq = 1 /\ log = <<>> /\ puts = <<>> /\ touch_edges = NoEdges

RenderNext ==
  \/ mu_next_command
  \/ last_op = NoOp /\ \E rect \in Rects : renderer_set_clip_rect(rect)
  \/ last_op = NoOp /\ \E rect \in Rects : cmd_rect(rect)
  \/ last_op = NoOp /\ \E w \in 1..DISPLAY_WIDTH : \E h \in 1..2 : \E pos \in Points :
       cmd_text(w, h, pos)
  \/ last_op = NoOp /\ \E id \in Icons : \E rect \in IconRects : cmd_icon(id, rect)
  \/ last_op = NoOp /\ \E p0, p1 \in Points : \E thickness \in {1, 3} :
       cmd_line(p0, p1, thickness)
  \/ last_op = NoOp /\ \E center \in Points : \E radius \in 0..2 : cmd_circle(center, radius)
  \/ last_op = NoOp /\ \E center \in Points : \E radius \in 0..2 : \E thickness \in 1..2 :
       cmd_arc(center, radius, thickness)
  \/ last_op = NoOp /\ \E p0, p1, p2 \in FarPoints : cmd_triangle(p0, p1, p2)
  \/ last_op = NoOp /\ \E pos \in Points : \E w, h \in {0, 2, DISPLAY_WIDTH + 2} :
       cmd_image(pos, w, h)

RenderSpec == RenderInit /\ [][RenderNext]_vars

(***************************************************************************)
(* Measuring and drawing text (TextSpec): the application measures and     *)
(* draws strings in its fonts, in any order.                               *)
(***************************************************************************)
\* "", "P", U+00E9, its lead byte alone, and two strings with the same
\* FNV-1a hash ("GPPPi", "dXpuI")
Texts == {<<>>, <<80>>, <<195, 169>>, <<195>>,
          <<71, 80, 80, 80, 105>>, <<100, 88, 112, 117, 73>>}

FontIds == 0..Len(Fonts)

TextInit ==
  /\ TickIdle
  /\ ClockIdle
  /\ AnimIdle
  /\ DrawIdle
  /\ cfg_lazy = FALSE
  /\ app_frames = {FramePlain}
  /\ input_events = <<>> /\ nextSeq = 1 /\ log = <<>> /\ puts = <<>> /\ touch_edges = NoEdges

TextNext ==
  \/ \E f \in FontIds : \E str \in Texts : \E len \in {0 - 1, 1} :
       renderer_get_text_width(f, str, len)
  \/ \E f \in FontIds : \E str \in Texts : \E x \in {0, 2} :
       renderer_draw_text(f, str, mu_vec2(x, 0))

TextSpec == TextInit /\ [][TextNext]_vars

(***************************************************************************)
(* Decoding a string (Utf8Spec): the application has one string, of any    *)
(* bytes, and decodes, draws and measures it.                              *)
(***************************************************************************)
MaxTextLen == 4

\* 'A', a continuation byte, and the leads of a 2-, 3- and 4-byte sequence
Utf8Bytes == {65, 128, 195, 226, 240}

\* strings with the bytes 0xF8 and 0xFF, which start no sequence
InvalidLeads == {<<255>>, <<255, 65>>, <<195, 255>>, <<248, 128>>, <<226, 128, 248>>}

Strings == UNION {[1..n -> Utf8Bytes] : n \in 0..MaxTextLen} \cup InvalidLeads

Utf8Init ==
  /\ TickIdle
  /\ ClockIdle
  /\ AnimIdle
  /\ clip_rect = [x |-> 0, y |-> 0, w |-> 0, h |-> 0]
  /\ last_op = NoOp
  /\ text_width_cache = [i \in 1..TEXT_WIDTH_CACHE_SIZE |-> NoEntry]
  /\ text \in Strings
  /\ font_glyphs = <<>>
  /\ PixIdle
  /\ cfg_lazy = FALSE
  /\ app_frames = {FramePlain}
  /\ input_events = <<>> /\ nextSeq = 1 /\ log = <<>> /\ puts = <<>> /\ touch_edges = NoEdges

Utf8Next ==
  \/ \E pos \in 1..MaxTextLen : decode(text, pos)
  \/ renderer_draw_text(1, text, mu_vec2(0, 0))
  \/ \E len \in {0 - 1, 2} : renderer_get_text_width(1, text, len)

Utf8Spec == Utf8Init /\ [][Utf8Next]_vars

(***************************************************************************)
(* Looking glyphs up (GlyphSpec): the application's font has a glyph table *)
(* sorted by codepoint, of any length up to MaxGlyphs.                     *)
(***************************************************************************)
MaxGlyphs == 6

\* the codepoints a table may hold, and one below and one above them
GlyphCodes == 1..MaxGlyphs

Codepoints == 0..(MaxGlyphs + 1)

\* the glyphs of the codepoints in S, by increasing codepoint
RECURSIVE TableOf(_)
TableOf(S) ==
  IF S = {} THEN <<>>
  ELSE LET last == CHOOSE c \in S : \A d \in S : d <= c
       IN  Append(TableOf(S \ {last}), [codepoint |-> last, width |-> 1 + (last % 3)])

GlyphInit ==
  /\ TickIdle
  /\ ClockIdle
  /\ AnimIdle
  /\ clip_rect = [x |-> 0, y |-> 0, w |-> 0, h |-> 0]
  /\ last_op = NoOp
  /\ text_width_cache = [i \in 1..TEXT_WIDTH_CACHE_SIZE |-> NoEntry]
  /\ text = <<>>
  /\ font_glyphs \in {TableOf(S) : S \in SUBSET GlyphCodes}
  /\ PixIdle
  /\ cfg_lazy = FALSE
  /\ app_frames = {FramePlain}
  /\ input_events = <<>> /\ nextSeq = 1 /\ log = <<>> /\ puts = <<>> /\ touch_edges = NoEdges

GlyphNext == \E codepoint \in Codepoints : lookup(font_glyphs, codepoint)

GlyphSpec == GlyphInit /\ [][GlyphNext]_vars

(***************************************************************************)
(* Writing a pixel (PixelSpec): a display of one of the pixel formats, a   *)
(* pixel with any content, and a frame that writes it in some colour.      *)
(***************************************************************************)
\* values of an 8-bit channel
Channels == {0, 1, 128, 255}

\* colours of commands: saturated ones, and the greys around the luminance
\* threshold
Colors ==
  [r : Channels, g : {0, 255}, b : {0, 255}, a : Channels]
    \cup {[r |-> v, g |-> v, b |-> v, a |-> 255] : v \in {127, 128}}

PixelFormats == {"MONO01", "MONO10", "ARGB_8888", "AL_88"}

\* what the pixel may hold in the format
PixelsIn(format) ==
  IF format \in {"MONO01", "MONO10"} THEN {0, 1}
  ELSE IF format = "ARGB_8888" THEN [a : Channels, r : Channels, g : {0, 255}, b : {0, 255}]
  ELSE [a : Channels, l : Channels]

PixelInit ==
  /\ TickIdle
  /\ ClockIdle
  /\ AnimIdle
  /\ clip_rect = display_rect
  /\ last_op = NoOp
  /\ TextIdle
  /\ pixel_format \in PixelFormats
  /\ display_width = DISPLAY_WIDTH
  /\ fb \in PixelsIn(pixel_format)
  /\ cfg_lazy = FALSE
  /\ app_frames = {FramePlain}
  /\ input_events = <<>> /\ nextSeq = 1 /\ log = <<>> /\ puts = <<>> /\ touch_edges = NoEdges

PixelNext ==
  \/ \E color \in Colors : put_pixel(color)
  \/ \E color \in Colors : event_loop_put_pixel(color)

PixelSpec == PixelInit /\ [][PixelNext]_vars

(***************************************************************************)
(* Blitting an image (BlitSpec): a display of some width in an 8-bit or a  *)
(* 16-bit format, zeroed at boot, and a frame with one image command.      *)
(***************************************************************************)
\* the width of the model's display, and one that is a multiple of 8
BlitWidths == {DISPLAY_WIDTH, 8}

\* the data of an image: byte i holds 16 + i
ImageData(size) == [i \in 0..(size - 1) |-> 16 + i]

\* images 2 x 2, with rows packed or padded by one byte
Images ==
  {[width |-> 2, height |-> 2, stride |-> 2 * BytesPerPixel(f) + pad, pixel_format |-> f,
    data |-> ImageData(2 * (2 * BytesPerPixel(f) + pad))] :
     f \in {"L_8", "AL_88"}, pad \in {0, 1}}

BlitInit ==
  /\ TickIdle
  /\ ClockIdle
  /\ AnimIdle
  /\ clip_rect = display_rect
  /\ last_op = NoOp
  /\ TextIdle
  /\ pixel_format \in {"L_8", "AL_88"}
  /\ display_width \in BlitWidths
  /\ fb = ZeroBuffer(display_width, pixel_format)
  /\ cfg_lazy = FALSE
  /\ app_frames = {FramePlain}
  /\ input_events = <<>> /\ nextSeq = 1 /\ log = <<>> /\ puts = <<>> /\ touch_edges = NoEdges

BlitNext ==
  \E little_endian \in BOOLEAN : \E image \in Images :
    \E x \in (0 - 1)..(display_width - 1) : \E y \in (0 - 1)..1 :
      \E clip \in {mu_rect(0, 0, display_width, DISPLAY_HEIGHT), mu_rect(1, 1, 1, 2)} :
        draw_image(little_endian, clip, mu_vec2(x, y), image)

BlitSpec == BlitInit /\ [][BlitNext]_vars

(***************************************************************************)
(* Filling rectangles (FillSpec): the displays of BlitSpec, zeroed at      *)
(* boot, and a frame with one rect command or a clear, in an opaque grey.  *)
(***************************************************************************)
FillColors == {[r |-> v, g |-> v, b |-> v, a |-> 255] : v \in {128, 255}}

FillRects ==
  {mu_rect(x, y, w, h) : x \in (0 - 1)..1, y \in (0 - 1)..1, w \in {0, 2, 9}, h \in 1..DISPLAY_HEIGHT}

FillInit == BlitInit

FillNext ==
  \/ \E little_endian \in BOOLEAN : \E rect \in FillRects : \E color \in FillColors :
       draw_rect(little_endian, rect, color)
  \/ \E little_endian \in BOOLEAN : \E color \in FillColors :
       renderer_clear(little_endian, color)

FillSpec == FillInit /\ [][FillNext]_vars

(***************************************************************************)
(* Filled rectangles on a monochrome display (MonoSpec): the first rect    *)
(* command after boot, for both tilings and three display widths.          *)
(***************************************************************************)
MonoWidths == {DISPLAY_WIDTH, 8, 16}

MonoColors == {[r |-> v, g |-> v, b |-> v, a |-> 255] : v \in {0, 255}}

MonoRects ==
  {mu_rect(x, y, w, h) : x \in (0 - 1)..1, y \in (0 - 1)..1, w \in {0, 2, 17},
                         h \in 1..DISPLAY_HEIGHT}

MonoInit ==
  /\ TickIdle
  /\ ClockIdle
  /\ AnimIdle
  /\ clip_rect = display_rect
  /\ last_op = NoOp
  /\ TextIdle
  /\ pixel_format \in {"MONO_VTILED", "MONO_HTILED"}
  /\ display_width \in MonoWidths
  /\ fb = [i \in 0..(MONO_BUFFER_SIZE(display_width) - 1) |-> 0]
  /\ cfg_lazy = FALSE
  /\ app_frames = {FramePlain}
  /\ input_events = <<>> /\ nextSeq = 1 /\ log = <<>> /\ puts = <<>> /\ touch_edges = NoEdges

MonoNext ==
  \E msb_first \in BOOLEAN : \E rect \in MonoRects : \E color \in MonoColors :
    draw_rect_mono(msb_first, rect, color)

MonoSpec == MonoInit /\ [][MonoNext]_vars

(***************************************************************************)
(* The width encodings (FlexSpec): weights from 0 up to INT_MAX, and       *)
(* entries around 0, around MU_FLEX_BASE and at the ends of int.           *)
(***************************************************************************)
MaxWeight == 60

FlexWeights ==
  (0..MaxWeight) \cup {65535, 65536, INT_MAX + MU_FLEX_BASE, (INT_MAX + MU_FLEX_BASE) + 1,
                       (INT_MAX + MU_FLEX_BASE) + 2, INT_MAX}

WidthEntries ==
  ((0 - 1)..MaxWeight) \cup ((MU_FLEX_BASE - MaxWeight)..(MU_FLEX_BASE + 1))
    \cup {INT_MIN, INT_MIN + 1, INT_MAX}

FlexInit == RenderInit

FlexNext ==
  \/ \E x \in FlexWeights : flex_round_trip(x)
  \/ \E w \in WidthEntries : width_entry(w)

FlexSpec == FlexInit /\ [][FlexNext]_vars

(***************************************************************************)
(* The buttons under touch input (WidgetSpec): the producer delivers any   *)
(* events while the event loop runs the frame callback of the watch        *)
(* sample.                                                                 *)
(***************************************************************************)
WidgetInit ==
  /\ TickIdle
  /\ ClockIdle
  /\ AnimIdle
  /\ DrawIdle
  /\ cfg_lazy = FALSE
  /\ app_frames = {FramePlain}
  /\ log = <<>>
  /\ input_events = <<>> /\ nextSeq = 1 /\ puts = <<>> /\ touch_edges = NoEdges

WidgetNext ==
  \/ \E code \in EventCodes : \E value \in EventValues(code) : \E sync \in BOOLEAN :
       input_callback(code, value, sync)
  \/ app_pc = "boot" /\ mu_setup("process_frame")
  \/ mu_event_loop_start
  \/ microui_loop_work_begin
  \/ drain_input_event
  \/ drain_input_empty
  \/ mu_handle_tick_buttons

WidgetSpec == WidgetInit /\ [][WidgetNext]_vars

(***************************************************************************)
(* Replaying a frame (ReplaySpec): the frame callback opens up to          *)
(* MaxContainers root containers in any order of their z-indices, each     *)
(* pushing up to MaxCommands commands.                                     *)
(***************************************************************************)
ZOrders(n) == {z \in [1..n -> 1..n] : \A i, j \in 1..n : z[i] = z[j] => i = j}

ContainerLists ==
  UNION {{[c \in 1..n |-> [zindex |-> z[c], count |-> k[c]]] :
            z \in ZOrders(n), k \in [1..n -> 0..MaxCommands]} : n \in 0..MaxContainers}

ReplayInit == RenderInit

ReplayNext == \E containers \in ContainerLists : replay_frame(containers)

ReplaySpec == ReplayInit /\ [][ReplayNext]_vars

(***************************************************************************)
(* Computing ids (IdSpec): over the frames the application pushes and pops *)
(* ids, moves the focus and asks for ids.                                  *)
(***************************************************************************)
\* "p" and "n"
IdData == {<<112>>, <<110>>}

IdInit == RenderInit

IdNext ==
  \/ \E data \in IdData : mu_get_id_call(data)
  \/ \E data \in IdData : mu_push_id(data)
  \/ mu_pop_id
  \/ \E id \in {U32(0, 0), ButtonIds[1]} : mu_set_focus(id)
  \/ mu_begin(U32(0, 500))

IdSpec == IdInit /\ [][IdNext]_vars

(***************************************************************************)
(* Laying out a row (LayoutSpec): a row of up to MaxItems cells of fixed,  *)
(* filling and weighted widths in a container of some width.               *)
(***************************************************************************)
RowWidths == {50, 60, 0 - 1, MU_FLEX(1), MU_FLEX(2)}

Rows == UNION {[1..n -> RowWidths] : n \in 1..MaxItems}

AvailableWidths == {100, 200}

LayoutInit == RenderInit

LayoutNext == \E widths \in Rows : \E available \in AvailableWidths :
                mu_layout_row(widths, available)

LayoutSpec == LayoutInit /\ [][LayoutNext]_vars

(***************************************************************************)
(* Missing references (NullSpec): the application measures and draws text  *)
(* in a font that may be NULL and draws and queries images that may be     *)
(* NULL, on the display of BlitSpec; one call after boot.                  *)
(***************************************************************************)
NullInit == BlitInit

NullNext ==
  \/ last_op = NoOp /\ \E f \in FontIds : \E str \in {<<>>, <<80>>, <<195, 169>>} : \E len \in {0 - 1, 1} :
       renderer_get_text_width(f, str, len)
  \/ last_op = NoOp /\ \E f \in FontIds : renderer_get_text_height(f)
  \/ last_op = NoOp /\ \E f \in FontIds : \E str \in {<<>>, <<80>>, <<195, 169>>} : \E x \in 0..1 :
       renderer_draw_text(f, str, mu_vec2(x, 0))
  \/ \E little_endian \in BOOLEAN : \E image \in Images \cup {NULL_IMAGE} :
       \E x \in 0..1 : \E y \in 0..1 :
         renderer_draw_image_or_null(little_endian, mu_rect(0, 0, display_width,
                                                            DISPLAY_HEIGHT),
                                     mu_vec2(x, y), image)
  \/ last_op = NoOp /\ \E image \in Images \cup {NULL_IMAGE} : mu_get_img_dimensions(image)

NullSpec == NullInit /\ [][NullNext]_vars

(***************************************************************************)
(* Setting up (SetupSpec): before the loop is started the application      *)
(* calls mu_setup any number of times, with a callback or with NULL, and   *)
(* in between narrows the clip rectangle, draws a pixel and moves the      *)
(* focus.                                                                  *)
(***************************************************************************)
Callbacks == {"process_frame", "draw_frame"}

SetupInit ==
  /\ TickIdle
  /\ ClockIdle
  /\ AnimIdle
  /\ DrawIdle
  /\ cfg_lazy = FALSE
  /\ app_frames = {FramePlain}
  /\ input_events = <<>> /\ nextSeq = 1 /\ log = <<>> /\ puts = <<>> /\ touch_edges = NoEdges

SetupNext ==
  \/ \E cb \in Callbacks \cup {"NULL"} : mu_setup(cb)
  \/ \E rect \in {mu_rect(1, 1, 1, 2), mu_rect(0, 0, 2, 2)} : renderer_set_clip_rect(rect)
  \/ mu_next_command
  \/ \E color \in {[r |-> 255, g |-> 255, b |-> 255, a |-> 255]} : put_pixel(color)
  \/ \E id \in {U32(0, 0), ButtonIds[1]} : mu_set_focus(id)

SetupSpec == SetupInit /\ [][SetupNext]_vars

(***************************************************************************)
(* ClockSpec: the pacing of the event loop.  A tick takes no time, less    *)
(* than the refresh period, exactly the period or longer than it; time     *)
(* passes while mu_handle_tick runs and while the work item waits out its  *)
(* delay.                                                                  *)
(***************************************************************************)
TickDurations == {0, 1, DISPLAY_REFRESH_PERIOD, DISPLAY_REFRESH_PERIOD + 1}

ClockInit ==
  /\ TickIdle
  /\ uptime = 0
  /\ current_time = 0
  /\ wait_time = 0
  /\ tick_durations = TickDurations
  /\ AnimIdle
  /\ DrawIdle
  /\ cfg_lazy \in BOOLEAN
  /\ app_frames = {FramePlain}
  /\ log = <<>>
  /\ \/ input_events = <<>> /\ nextSeq = 1 /\ puts = <<>> /\ touch_edges = NoEdges
     \/ input_events = Tap /\ nextSeq = 3 /\ puts = TapLog /\ touch_edges = [pressed |-> 1, released |-> 1, synced |-> TRUE]

ClockNext ==
  \/ app_pc = "boot" /\ mu_setup("process_frame")
  \/ mu_event_loop_start
  \/ mu_event_loop_stop
  \/ microui_loop_work_begin
  \/ drain_input_event
  \/ drain_input_empty
  \/ mu_handle_tick_frame

ClockSpec == ClockInit /\ [][ClockNext]_vars

(***************************************************************************)
(* Properties of the input hand-off (Spec).                                *)
(***************************************************************************)
\* entries written by the tick thread
TickSide(e) == e.ev \in {"down", "up", "move", "cb", "replay", "present"}

\* entries that apply a queued sample to the Context
Applies(e) == e.ev \in {"down", "up", "move"}

Last(S) == CHOOSE i \in S : \A j \in S : j <= i

First(S) == CHOOSE i \in S : \A j \in S : i <= j

\* the button state the tick thread left before entry i
ButtonsBefore(i) ==
  LET J == {j \in 1..(i - 1) : TickSide(log[j])}
  IN  IF J = {} THEN 0 ELSE log[Last(J)].md

\* C1: a sample is applied as a pointer move in the tick that dequeues it,
\* and that move leaves the buttons alone; the button change of a sample
\* dequeued in tick n is applied in tick n + 1, before anything else the
\* tick does, and never in tick n.
EdgeAppliedNextTick ==
  /\ \A i \in DOMAIN log : log[i].ev = "move" =>
       /\ log[i].pos = <<log[i].x, log[i].y>>
       /\ log[i].md = ButtonsBefore(i)
       /\ (log[i].edge # "none" /\ tickNo > log[i].tick) =>
            \E k \in DOMAIN log :
              /\ k > i
              /\ log[k].ev = log[i].edge
              /\ log[k].seq = log[i].seq
              /\ log[k].tick = log[i].tick + 1
  /\ \A k \in DOMAIN log : log[k].ev \in {"down", "up"} =>
       /\ log[k].md = (IF log[k].ev = "down" THEN MU_MOUSE_LEFT ELSE 0)
       /\ \A j \in 1..(k - 1) : TickSide(log[j]) => log[j].tick < log[k].tick
       /\ \A i \in DOMAIN log :
            (log[i].ev = "move" /\ log[i].seq = log[k].seq) =>
              (i < k /\ log[i].tick + 1 = log[k].tick)

\* a press was dequeued in one tick and applied at the start of the next
EdgeAppliedNextTickSeen ==
  \E i, k \in DOMAIN log :
    /\ log[i].ev = "move" /\ log[i].edge = "down"
    /\ log[k].ev = "down" /\ log[k].seq = log[i].seq
    /\ log[k].tick = log[i].tick + 1
    /\ log[k].md = MU_MOUSE_LEFT /\ log[i].md = 0

PutEdges == SelectSeq(puts, LAMBDA e : e.ev = "put" /\ e.edge # "none")

AppliedEdges == SelectSeq(log, LAMBDA e : e.ev \in {"down", "up"})

\* C2: the button changes applied to the Context are, one for one and in
\* order, the press/release samples put on the queue; a sample not yet
\* applied is still on the queue or is the deferred one; a sample that met
\* a full queue is put later or is still held by the blocked producer.
NoEdgeLost ==
  /\ Len(AppliedEdges) <= Len(PutEdges)
  /\ \A k \in 1..Len(AppliedEdges) :
       /\ AppliedEdges[k].seq = PutEdges[k].seq
       /\ AppliedEdges[k].ev = PutEdges[k].edge
       /\ AppliedEdges[k].x = PutEdges[k].x
       /\ AppliedEdges[k].y = PutEdges[k].y
  /\ \A k \in (Len(AppliedEdges) + 1)..Len(PutEdges) :
       \/ \E q \in DOMAIN input_events : input_events[q].seq = PutEdges[k].seq
       \/ pending_input_valid /\ pending_input.seq = PutEdges[k].seq
  /\ \A i \in DOMAIN puts : (puts[i].ev = "full" /\ puts[i].edge # "none") =>
       \/ \E j \in DOMAIN puts : j > i /\ puts[j].ev = "put" /\ puts[j].seq = puts[i].seq
       \/ prod_pc = "put" /\ nextSeq - 1 = puts[i].seq /\ EdgeOf(mu_input) = puts[i].edge

\* a release that met the full queue was applied, after the press
EdgeOnFullQueueApplied ==
  \E i \in DOMAIN puts : \E k \in DOMAIN log :
    /\ puts[i].ev = "full" /\ puts[i].edge = "up"
    /\ log[k].ev = "up" /\ log[k].seq = puts[i].seq
    /\ \E d \in 1..(k - 1) : log[d].ev = "down"

\* C3: when a button change is applied at the start of a tick, the sample's
\* pointer move was the last sample applied before the frame callback of
\* the tick before, and that callback saw the pointer at the sample's
\* coordinates.
EdgeSeenAtItsPosition ==
  \A k \in DOMAIN log : log[k].ev \in {"down", "up"} =>
    \E i \in 1..(k - 1) :
      /\ log[i].ev = "move"
      /\ log[i].seq = log[k].seq
      /\ LET after == {j \in (i + 1)..(k - 1) : TickSide(log[j])}
         IN  /\ after # {}
             /\ log[First(after)].ev = "cb"
             /\ log[First(after)].tick = log[k].tick - 1
             /\ log[First(after)].pos = <<log[k].x, log[k].y>>

\* a press away from where the pointer was has been applied
MovedEdgeApplied ==
  \E i, k \in DOMAIN log :
    /\ i < k
    /\ log[i].ev = "move" /\ log[i].seq = log[k].seq
    /\ log[k].ev = "down"
    /\ log[k].x = 1
    /\ \E c \in i..k : log[c].ev = "cb" /\ log[c].pos = <<1, log[k].y>>

\* a step of the producer
ProducerStep == evCount' # evCount \/ prod_pc' # prod_pc

\* C4: a step of input_callback changes only its statics and the queue,
\* and the queue only by appending; the Context and the statics of
\* mu_handle_input_events change only in steps of the tick thread.
ContextOnlyByTick ==
  [][/\ ProducerStep =>
          /\ UNCHANGED <<mu_ctx, pending_input, pending_input_valid, previous_command_hash,
                         display_buffer, display, tick_pc, tickNo, tick_ret>>
          /\ \/ input_events' = input_events
             \/ input_events' = Append(input_events, Queued(mu_input', nextSeq' - 1))
     /\ (mu_ctx' # mu_ctx \/ pending_input' # pending_input
           \/ pending_input_valid' # pending_input_valid) =>
          (~ProducerStep /\ (tick_pc # "idle" \/ tick_pc' # "idle"))]_vars

\* the producer put a sample while the tick was draining the queue: the
\* drain of the running tick has taken samples off the queue and the queue
\* is full again, so the newest sample was put after the drain began
PutDuringDrain ==
  /\ tick_pc = "drain"
  /\ \E i \in DOMAIN log : log[i].ev = "move" /\ log[i].tick = tickNo
  /\ Len(input_events) = MSGQ_MAX_MSGS
  /\ puts # <<>>
  /\ puts[Len(puts)].ev = "put"
  /\ input_events[MSGQ_MAX_MSGS].seq = puts[Len(puts)].seq

(***************************************************************************)
(* Properties of the tick and of the event loop (LoopSpec).                *)
(***************************************************************************)
\* the step of mu_handle_tick an entry belongs to
Phase(e) == CASE e.ev \in {"down", "up", "move"} -> 1
              [] e.ev = "cb" -> 2
              [] e.ev = "replay" -> 3
              [] e.ev = "present" -> 4
              [] OTHER -> 0

EntriesOf(T, ev) == {i \in DOMAIN log : log[i].tick = T /\ log[i].ev = ev}

\* C5: within a tick the input is drained first, then the frame callback
\* runs, once, then the commands are replayed in list order, then the
\* display is presented, at most once and after all the commands; what a
\* tick that rendered leaves on the display is the whole frame.
TickStepsInOrder ==
  /\ \A i, j \in DOMAIN log :
       (i < j /\ TickSide(log[i]) /\ TickSide(log[j]) /\ log[i].tick = log[j].tick) =>
         Phase(log[i]) <= Phase(log[j])
  /\ \A T \in 1..tickNo :
       /\ Cardinality(EntriesOf(T, "cb")) <= 1
       /\ (T < tickNo \/ tick_pc = "idle") => Cardinality(EntriesOf(T, "cb")) = 1
       /\ Cardinality(EntriesOf(T, "present")) <= 1
       /\ \A p \in EntriesOf(T, "present") :
            /\ {log[r].seq : r \in {q \in EntriesOf(T, "replay") : q < p}} = 1..log[p].cmds
            /\ Cardinality(EntriesOf(T, "replay")) = log[p].cmds
            /\ \A q, r \in EntriesOf(T, "replay") : q < r => log[q].seq < log[r].seq
  /\ (tick_pc = "idle" /\ tickNo >= 1 /\ tick_ret) =>
       /\ display = [shown |-> TRUE, list |-> mu_ctx.command_list]
       /\ display_buffer = mu_ctx.command_list

\* a tick drained input, called back and presented a frame of two commands
TwoCommandFramePresented ==
  \E p \in DOMAIN log :
    /\ log[p].ev = "present" /\ log[p].cmds = 2
    /\ \E i \in 1..(p - 1) : log[i].ev = "move" /\ log[i].tick = log[p].tick
    /\ tick_pc = "idle" /\ tickNo = log[p].tick

\* C6: once mu_event_loop_stop has returned, the frame callback does not
\* run and nothing is presented.
NoFrameAfterStop ==
  \A i, j \in DOMAIN log :
    (i < j /\ log[i].ev = "stop") => log[j].ev \notin {"cb", "present"}

\* the step that ends a tick
TickEnds == tick_pc = "frame" /\ tick_pc' = "idle"

\* the hash mu_needs_redraw holds for what the display shows
ShownHash == IF display.shown THEN mu_get_id(display.list) ELSE U32(0, 0)

\* C7: with lazy redraw a tick renders and returns true exactly when the
\* hash of its command list differs from the hash of the frame presented
\* last (0 before any frame); then the display shows the new frame,
\* otherwise the framebuffer and the display are left alone.
RedrawIffHashDiffers ==
  [][(cfg_lazy /\ TickEnds) =>
       /\ tick_ret' = (mu_get_id(mu_ctx'.command_list) # ShownHash)
       /\ tick_ret' => display' = [shown |-> TRUE, list |-> mu_ctx'.command_list]
       /\ (~tick_ret') => UNCHANGED <<display, display_buffer>>]_vars

\* a tick built a frame that differs from the one on display and returned
\* false
ChangedFrameSkipped ==
  /\ cfg_lazy
  /\ tick_pc = "idle" /\ tickNo >= 2
  /\ ~tick_ret
  /\ display.shown
  /\ mu_ctx.command_list # display.list

\* C7 as stated: with lazy redraw a tick renders and returns true exactly
\* when its command list differs from the command list presented last,
\* and the first frame is presented.
RedrawIffListDiffers ==
  [][(cfg_lazy /\ TickEnds) =>
       (tick_ret' = (~display.shown \/ mu_ctx'.command_list # display.list))]_vars

(***************************************************************************)
(* Properties of the animation calls (AnimSpec).                           *)
(***************************************************************************)
\* the step is a call of mu_anim_ex
ExCall == anim_calls' = anim_calls + 1 /\ anim_call'.op = "mu_anim_ex"

\* the slot of the call's id before and after the call, 0 for none
SlotBefore == mu_pool_get(anim_pool, anim_call'.id)

SlotAfter == mu_pool_get(anim_pool', anim_call'.id)

\* the call finds no stored state or a stored tuple that differs from its own
CallRestarts ==
  \/ SlotBefore = 0
  \/ TupleDiffers(anim_states[SlotBefore], anim_call'.start, anim_call'.end,
                  anim_call'.duration_ms, anim_call'.easing, anim_call'.loop)

\* C8: a call of mu_anim_ex for an id without stored state, or with a tuple
\* that differs from the stored one, leaves a state for the id that holds
\* the call's tuple and starts now, unfinished and at the supplied start
\* (when the duration is not 0); a non-looping call with the stored tuple
\* leaves start_time_ms as it was.
RestartOnNewTuple ==
  [][ExCall =>
       /\ CallRestarts =>
            /\ SlotAfter > 0
            /\ anim_states'[SlotAfter].start_time_ms = curr_time_ms
            /\ ~TupleDiffers(anim_states'[SlotAfter], anim_call'.start, anim_call'.end,
                             anim_call'.duration_ms, anim_call'.easing, anim_call'.loop)
            /\ anim_call'.duration_ms > 0 =>
                 /\ anim_states'[SlotAfter].finished = 0
                 /\ anim_call'.ret = anim_call'.start
       /\ (~CallRestarts /\ ~anim_call'.loop) =>
            anim_states'[SlotAfter].start_time_ms = anim_states[SlotBefore].start_time_ms
     ]_vars

\* time since the (re)start of the state the call left
ElapsedAfter == Sub32(curr_time_ms, anim_states'[SlotAfter].start_time_ms)

Between(v, a, b) == (a <= v /\ v <= b) \/ (b <= v /\ v <= a)

\* C9: a non-looping linear animation of non-zero duration returns start at
\* elapsed time 0; at elapsed time e below the duration a value between
\* start and end, which is start + (end - start) * e / duration when that
\* is a float; and end, with finished set, from the duration on.
LinearValue ==
  [][(ExCall /\ SlotAfter > 0 /\ ~anim_call'.loop /\ anim_call'.easing = "ease_linear"
        /\ anim_call'.duration_ms > 0) =>
       LET c == anim_call'
           e == ElapsedAfter
           \* four times the exact value at e
           x == 4 * c.start + (c.end - c.start) * ((4 * e[2]) \div c.duration_ms)
       IN  IF e = U32(0, 0) THEN c.ret = c.start
           ELSE IF Less32(e, c.duration_ms)
             THEN /\ Between(c.ret, c.start, c.end)
                  /\ (x % 4 = 0 /\ Fl(x \div 4) = x \div 4) => c.ret = x \div 4
             ELSE /\ c.ret = c.end
                  /\ anim_states'[SlotAfter].finished = 1
     ]_vars

\* C10: once a non-looping animation has finished at its end value, a call
\* of mu_anim_ex with the same tuple returns end and leaves it finished,
\* and mu_anim_done returns true, whatever the clock shows.
FinishedHoldsEnd ==
  [][/\ (ExCall /\ SlotBefore > 0 /\ ~CallRestarts /\ ~anim_call'.loop
           /\ anim_states[SlotBefore].finished = 1
           /\ anim_states[SlotBefore].current = anim_states[SlotBefore].end) =>
          /\ anim_call'.ret = anim_call'.end
          /\ anim_states'[SlotAfter].finished = 1
     /\ (anim_calls' = anim_calls + 1 /\ anim_call'.op = "mu_anim_done"
           /\ SlotBefore > 0 /\ anim_states[SlotBefore].finished = 1) =>
          anim_call'.ret = 1
    ]_vars

\* the start time the call computes its progress from
StartUsed ==
  IF CallRestarts THEN curr_time_ms ELSE anim_states[SlotBefore].start_time_ms

\* the call computes t >= 1
CallEnds == Progress(Sub32(curr_time_ms, StartUsed), anim_call'.duration_ms) >= 4

DoneCall == anim_calls' = anim_calls + 1 /\ anim_call'.op = "mu_anim_done"

\* C11: a call of mu_anim_ex for a looping animation that computes t >= 1
\* returns end and sets start_time_ms to the current time; no slot that
\* holds a looping animation is ever finished, and mu_anim_done returns
\* false for the id of such a slot.
LoopReturnsEndAndRestarts ==
  [][/\ (ExCall /\ SlotAfter > 0 /\ anim_call'.loop /\ CallEnds) =>
          /\ anim_call'.ret = anim_call'.end
          /\ anim_states'[SlotAfter].start_time_ms = curr_time_ms
     /\ \A i \in Slots : anim_states'[i].loop # 0 => anim_states'[i].finished = 0
     /\ (DoneCall /\ SlotBefore > 0 /\ anim_states[SlotBefore].loop # 0) =>
          anim_call'.ret = 0
    ]_vars

\* every slot of the animation pool holds an id
PoolFull == \A i \in Slots : anim_pool[i].id # 0

\* the slots whose id the step changed
Reclaimed == {i \in Slots : anim_pool'[i].id # anim_pool[i].id}

\* C12: a call of mu_anim_ex for an id without a slot, made when every slot
\* is in use, reclaims exactly one slot for the id and behaves like a first
\* call: the state holds the call's tuple, starts now, and the call returns
\* start (when the duration is not 0).
FullPoolReclaims ==
  [][(ExCall /\ SlotBefore = 0 /\ PoolFull) =>
       /\ SlotAfter > 0
       /\ Reclaimed = {SlotAfter}
       /\ anim_pool'[SlotAfter].last_update = frame
       /\ anim_states'[SlotAfter].start_time_ms = curr_time_ms
       /\ ~TupleDiffers(anim_states'[SlotAfter], anim_call'.start, anim_call'.end,
                        anim_call'.duration_ms, anim_call'.easing, anim_call'.loop)
       /\ anim_call'.duration_ms > 0 => anim_call'.ret = anim_call'.start
    ]_vars

\* the slots with the smallest last-touched frame
LeastRecent == {i \in Slots : \A j \in Slots : anim_pool[i].last_update <= anim_pool[j].last_update}

\* C13: a call that inserts a new id into the full pool puts the id in a
\* slot with the smallest last-touched frame, and leaves the id, stamp and
\* stored state of every other slot as they were.
EvictsLeastRecent ==
  [][(ExCall /\ SlotBefore = 0 /\ PoolFull) =>
       \E v \in LeastRecent :
         /\ anim_pool'[v].id = anim_call'.id
         /\ \A i \in Slots \ {v} : /\ anim_pool'[i] = anim_pool[i]
                                   /\ anim_states'[i] = anim_states[i]
    ]_vars

\* C14: no two slots of the animation pool hold the same id, free slots
\* aside.
OneSlotPerId ==
  \A i, j \in Slots : (i # j /\ anim_pool[i].id # 0) => anim_pool[i].id # anim_pool[j].id

\* the last call reclaimed the slot of another id in a later frame than the
\* pool was filled in, and every slot is in use
SlotReclaimed ==
  /\ anim_call.op = "mu_anim_ex"
  /\ anim_call.held \notin {0, anim_call.id}
  /\ mu_pool_get(anim_pool, anim_call.id) > 0
  /\ \A i \in Slots : anim_pool[i].id # 0
  /\ frame >= 2

(***************************************************************************)
(* Properties of the renderer (RenderSpec).                                *)
(***************************************************************************)
InRect(p, r) == r.x <= p[1] /\ p[1] < r.x + r.w /\ r.y <= p[2] /\ p[2] < r.y + r.h

DrawOps == {"rect", "text", "icon", "line", "circle", "arc", "triangle", "image"}

\* C15: every pixel a replayed drawing command writes lies inside the clip
\* rectangle set by the last clip command and inside the display.
WritesInsideClip ==
  last_op.op \in DrawOps =>
    \A p \in last_op.ret : InRect(p, clip_rect) /\ InRect(p, display_rect)

(***************************************************************************)
(* Properties of measuring and drawing text (TextSpec).                    *)
(***************************************************************************)
\* the cursor displacement of drawing str in font f from x = 0
Displacement(f, str) == IF f = 0 THEN 0 ELSE DrawFrom(Fonts[f], str, 1, 0, 0).x

\* C16: the width the text-width function returns for a whole string equals
\* the horizontal displacement of the drawing cursor after drawing it
WidthIsDisplacement ==
  (last_op.op = "get_text_width" /\ last_op.arg[3] = 0 - 1)
    => last_op.ret = Displacement(last_op.arg[1], last_op.arg[2])

(***************************************************************************)
(* Properties of the text width cache (TextSpec).                          *)
(***************************************************************************)
\* the width renderer_get_text_width computes when it does not consult the
\* cache: the measuring loop and the spacing between the characters
UncachedWidth(f, str, length) ==
  IF f = 0 THEN 0
  ELSE LET len == IF length = 0 - 1 THEN Len(str) ELSE length
           m == MeasureFrom(Fonts[f], str, len, 0, 0, 0, 0)
       IN  m.width + SpacingBetween(Fonts[f], m.char_count)

\* C38: after any sequence of earlier calls, renderer_get_text_width returns
\* for (font, text, len) the width the uncached computation gives
CachedWidthIsMeasured ==
  last_op.op = "get_text_width"
    => last_op.ret = UncachedWidth(last_op.arg[1], last_op.arg[2], last_op.arg[3])

(***************************************************************************)
(* Properties of the decoder (Utf8Spec).                                   *)
(***************************************************************************)
\* the length the lead byte b announces, 0 when b cannot start a sequence
SequenceLength(b) ==
  IF b < 128 THEN 1
  ELSE IF b \in 192..223 THEN 2
  ELSE IF b \in 224..239 THEN 3
  ELSE IF b \in 240..247 THEN 4
  ELSE 0

\* the sequence at pos has an invalid lead byte, or a byte that should
\* continue it is missing: the NUL or another byte stands in its place
Malformed(str, pos) ==
  \/ SequenceLength(str[pos]) = 0
  \/ \E k \in 1..(SequenceLength(str[pos]) - 1) : ByteAt(str, pos + k) \notin 128..191

LinearSearch(table, codepoint) ==
  IF \E i \in 1..Len(table) : table[i].codepoint = codepoint
    THEN CHOOSE i \in 1..Len(table) :
           /\ table[i].codepoint = codepoint
           /\ \A j \in 1..(i - 1) : table[j].codepoint # codepoint
    ELSE 0

\* C18: on a table sorted by strictly increasing codepoint, the empty and
\* the one-element table included, find_glyph returns the entry with the
\* codepoint when there is one and NULL otherwise, as a linear search does
FindGlyphIsLinearSearch ==
  last_op.op = "find_glyph" =>
    /\ \A i, j \in 1..Len(last_op.arg[1]) :
         i < j => last_op.arg[1][i].codepoint < last_op.arg[1][j].codepoint
    /\ last_op.ret = LinearSearch(last_op.arg[1], last_op.arg[2])

\* the first glyph of a table of five was looked up and found: the search
\* halved the table three times and kept to the left each time
FirstOfFiveFound ==
  /\ last_op.op = "find_glyph"
  /\ Len(last_op.arg[1]) = 5
  /\ last_op.arg[1][1].codepoint = last_op.arg[2]
  /\ last_op.ret = 1

(***************************************************************************)
(* Properties of the pixel formats (PixelSpec).                            *)
(***************************************************************************)
\* C19: on a 1-bit display the colour is reduced to the luminance
\* L = (299R + 587G + 114B) / 1000 and compared with 127; the bit written
\* for L > 127 is 1 under MONO01 and 0 under MONO10, and the opposite bit
\* for the other colours, so that the two variants always differ
MonoVariantsOpposite ==
  (last_op.op = "set_pixel" /\ last_op.arg[1] \in {"MONO01", "MONO10"}) =>
    LET color == last_op.arg[3]
        L == (299 * color.r + 587 * color.g + 114 * color.b) \div 1000
    IN  last_op.ret = IF (L > 127) = (last_op.arg[1] = "MONO01") THEN 1 ELSE 0

\* a value brought into 0..255
Clamp(v) == IF v > 255 THEN 255 ELSE IF v < 0 THEN 0 ELSE v

\* the channel the formula gives before it is stored
Blended(src_c, src_a, dst_c, dst_a) ==
  (src_c * src_a + (dst_c * dst_a * (255 - src_a)) \div 255)
    \div (src_a + (dst_a * (255 - src_a)) \div 255)

\* C20: an ARGB-8888 write with alpha blending overwrites the pixel for
\* source alpha 255, leaves it for source alpha 0, and otherwise stores
\* out_a = src_a + dst_a * (255 - src_a) / 255 and, per channel,
\* (src_c * src_a + dst_c * dst_a * (255 - src_a) / 255) / out_a clamped to
\* 0..255
BlendIsClamped ==
  (last_op.op = "set_pixel" /\ last_op.arg[1] = "ARGB_8888") =>
    LET dst == last_op.arg[2]
        src == last_op.arg[3]
        out == last_op.ret
    IN  IF src.a = 255 THEN out = [a |-> 255, r |-> src.r, g |-> src.g, b |-> src.b]
        ELSE IF src.a = 0 THEN out = dst
        ELSE /\ out.a = src.a + (dst.a * (255 - src.a)) \div 255
             /\ out.r = Clamp(Blended(src.r, src.a, dst.r, dst.a))
             /\ out.g = Clamp(Blended(src.g, src.a, dst.g, dst.a))
             /\ out.b = Clamp(Blended(src.b, src.a, dst.b, dst.a))

(***************************************************************************)
(* Properties of the image blit (BlitSpec).                                *)
(***************************************************************************)
\* C21: when the image has the format of the display, the byte copy leaves
\* the buffer as the pixel-by-pixel path would leave it for the same image,
\* position and clip rectangle, whatever the width of the display and the
\* stride of the image
FastPathIsSlowPath ==
  (last_op.op = "draw_image" /\ last_op.ret = "memcpy") =>
    fb = SlowPath(ZeroBuffer(display_width, pixel_format), display_width, pixel_format,
                  last_op.arg[1], last_op.arg[2], last_op.arg[3], last_op.arg[4])

(***************************************************************************)
(* Properties of the buttons (WidgetSpec).                                 *)
(***************************************************************************)
\* the ticks in which button b reported a submit
SubmitTicks(b) == {log[i].tick : i \in {j \in 1..Len(log) : log[j].ev = "submit" /\ log[j].seq = b}}

\* a release was applied in a tick after t and up to u
ReleasedBetween(t, u) ==
  \E i \in 1..Len(log) : log[i].ev = "up" /\ log[i].tick > t /\ log[i].tick <= u

\* C22: a button reports a submit in one tick per press: between two ticks
\* in which the same button reports a submit the touch was released
OneSubmitPerPress ==
  \A b \in 1..Len(ButtonIds) : \A t, u \in SubmitTicks(b) :
    t < u => ReleasedBetween(t, u)

(***************************************************************************)
(* Properties of the replay (ReplaySpec).                                  *)
(***************************************************************************)
\* the commands of the containers, lowest z-index first, each container's
\* in push order
BackToFront(containers) ==
  LET n == Len(containers)
      f[z \in 0..n] ==
        IF z = 0 THEN <<>>
        ELSE LET c == CHOOSE d \in 1..n : containers[d].zindex = z
             IN  f[z - 1] \o PushedBy(containers, c)
  IN  f[n]

\* C24: the replay ends, and it visits the commands of the frame once each,
\* container by container in ascending z-index, each container's commands
\* in push order
ReplayBackToFront ==
  last_op.op = "render" =>
    /\ last_op.ret.done
    /\ last_op.ret.visited = BackToFront(last_op.arg)

\* three containers opened front to back, each with commands, were replayed
OpenedFrontToBack ==
  /\ last_op.op = "render"
  /\ Len(last_op.arg) = 3
  /\ \A c \in 1..3 : last_op.arg[c].zindex = 4 - c /\ last_op.arg[c].count >= 1
  /\ Len(last_op.ret.visited) >= 3
  /\ last_op.ret.visited[1].container = 3

(***************************************************************************)
(* Properties of the ids (IdSpec).                                         *)
(***************************************************************************)
\* the call just made has the id stack and the data of the first call
SameStackAndData ==
  /\ log # <<>>
  /\ last_op.op = "get_id"
  /\ last_op.arg = <<log[1].stack, log[1].data>>

Same(w) == w

NullFontHarmless ==
  /\ (last_op.op = "get_text_width" /\ last_op.arg[1] = 0) => last_op.ret = 0
  /\ (last_op.op = "get_text_height" /\ last_op.arg = 0) => last_op.ret = 0
  /\ (last_op.op = "draw_text" /\ last_op.arg[1] = 0) => last_op.ret.iterations = 0

\* drawing a NULL image leaves the buffer as it was
NullImageNotDrawn ==
  (last_op.op = "draw_image" /\ last_op.arg[4] = NULL_IMAGE)
    => fb = ZeroBuffer(display_width, pixel_format)

\* the dimensions of a NULL image are 0 by 0, without a fault
NullImageZeroMetrics ==
  (last_op.op = "get_img_dimensions" /\ last_op.arg = NULL_IMAGE)
    => last_op.ret = [fault |-> FALSE, width |-> 0, height |-> 0]

\* C27: a NULL font or image never faults and never changes the frame
\* buffer: the text measures 0 by 0, nothing is drawn, and the dimensions
\* of the image are 0 by 0
MissingReferenceHarmless ==
  NullFontHarmless /\ NullImageNotDrawn /\ NullImageZeroMetrics

TickBegins == tickNo' # tickNo

\* C29: the step that ends a tick leaves the one work item of the loop
\* scheduled once, with the delay max(0, period - elapsed) where elapsed is
\* the time the tick took, which is never negative; a tick starts only
\* when no tick is running, and not before its delay has passed
TickPaced ==
  [][/\ TickEnds =>
          LET elapsed == uptime' - current_time
              late    == DISPLAY_REFRESH_PERIOD - elapsed
          IN  /\ loop_work = "running"
              /\ loop_work' = "delayed"
              /\ wait_time' = IF late > 0 THEN late ELSE 0
              /\ wait_time' >= 0
     /\ TickBegins =>
          /\ tick_pc = "idle"
          /\ loop_work \in {"queued", "delayed"}
          /\ loop_work' = "running"
          /\ tickNo' = tickNo + 1
          /\ uptime' = uptime + wait_time]_vars

\* the second tick took longer than the refresh period and the third tick
\* is scheduled without delay
OverrunScheduledAtOnce ==
  /\ tickNo = 2
  /\ tick_pc = "idle"
  /\ loop_work = "delayed"
  /\ uptime - current_time > DISPLAY_REFRESH_PERIOD
  /\ wait_time = 0

(***************************************************************************)
(* Properties of unused animations (PoolSpec).                             *)
(***************************************************************************)
\* the number of whole frames without a reference after which an animation
\* is to be collected
ANIM_GC_FRAMES == 1

\* the slots of animations referenced within the last ANIM_GC_FRAMES frames
RecentSlots ==
  {i \in Slots : anim_pool[i].id # 0 /\ frame - anim_pool[i].last_update <= ANIM_GC_FRAMES}

\* C30: an animation that has not been referenced for ANIM_GC_FRAMES
\* frames holds no slot any more: mu_anim_count counts only the animations
\* referenced within the last ANIM_GC_FRAMES frames, whether or not the
\* pool is full
UnusedCollected == mu_anim_count(anim_pool) = Cardinality(RecentSlots)

\* mu_anim_count never decreases from one step to the next
CountNeverDecreases ==
  [][mu_anim_count(anim_pool') >= mu_anim_count(anim_pool)]_vars

(***************************************************************************)
(* Properties of the samples formed by input_callback (Spec).              *)
(***************************************************************************)
\* the samples put on the queue so far that carry the edge
PutsWith(edge) == {i \in 1..Len(puts) : puts[i].ev = "put" /\ puts[i].edge = edge}

\* C31: once a report has ended and its sample is on the queue, as many
\* samples with down = 1 were put as the touch state went from released to
\* pressed, and as many with up = 1 as it went from pressed to released
EdgesPutOnce ==
  (prod_pc = "idle" /\ touch_edges.synced) =>
     /\ Cardinality(PutsWith("down")) = touch_edges.pressed
     /\ Cardinality(PutsWith("up")) = touch_edges.released

(***************************************************************************)
(* Properties of the deferred button change (Spec).                        *)
(***************************************************************************)
\* the button changes applied to the Context, by their place in the history
EdgeEntries == {i \in DOMAIN log : log[i].ev \in {"down", "up"}}

\* the frame callbacks that ran after entry i and before entry j with the
\* button down
SeenDownBetween(i, j) ==
  {c \in (i + 1)..(j - 1) : log[c].ev = "cb" /\ log[c].md = MU_MOUSE_LEFT}

\* C32: no two button changes are applied in the same tick, and between a
\* press and the release applied next a frame callback ran with the button
\* down
PressSeenBeforeRelease ==
  /\ \A i, j \in EdgeEntries : i # j => log[i].tick # log[j].tick
  /\ \A i, j \in EdgeEntries :
       (/\ i < j
        /\ log[i].ev = "down" /\ log[j].ev = "up"
        /\ \A k \in EdgeEntries : ~(i < k /\ k < j)) =>
         \E c \in SeenDownBetween(i, j) : log[c].tick >= log[i].tick

\* a release that waited right behind its press was applied one tick after
\* the press, and the callback of the tick between saw the button down
ReleaseAppliedNextTick ==
  \E i, j \in EdgeEntries :
    /\ log[i].ev = "down" /\ log[j].ev = "up"
    /\ log[j].tick = log[i].tick + 1
    /\ log[j].seq = log[i].seq + 1
    /\ SeenDownBetween(i, j) # {}

\* C33: the frame callback of the tick that applies a button change sees
\* the pointer at the coordinates of the sample that carried the change
EdgeTickSeesEdgePosition ==
  \A k \in EdgeEntries : \A c \in DOMAIN log :
    (log[c].ev = "cb" /\ log[c].tick = log[k].tick) =>
      log[c].pos = <<log[k].x, log[k].y>>

(***************************************************************************)
(* Properties of the draining of the queue (LiveSpec).                     *)
(***************************************************************************)
\* the numbers the samples of one behaviour can have
Seqs == 1..(MSGQ_MAX_MSGS + MaxEvents)

\* the ticks it takes until the sample at place q of the queue is applied:
\* a tick drains up to and including the first button change, and a button
\* change is applied by the tick after the one that dequeued it
TicksNeeded(q) ==
  Cardinality({r \in 1..(q - 1) : CarriesButton(input_events[r])}) + 1
    + (IF CarriesButton(input_events[q]) THEN 1 ELSE 0)

\* the loop runs and has so many ticks to come
TicksToCome(n) == "STARTED" \in wq_flags /\ MaxTicks - tickNo >= n

\* sample s is on the queue and the ticks that apply it are to come
Waiting(s) ==
  \E q \in DOMAIN input_events : input_events[q].seq = s /\ TicksToCome(TicksNeeded(q))

\* sample s is the deferred one and a tick is to come
Deferred(s) == pending_input_valid /\ pending_input.seq = s /\ TicksToCome(1)

\* sample s has moved the pointer and, when it carries one, its button
\* change has been applied
Applied(s) ==
  \E i \in DOMAIN log :
    /\ log[i].seq = s
    /\ \/ log[i].ev \in {"down", "up"}
       \/ log[i].ev = "move" /\ log[i].edge = "none"

\* the producer waits in k_msgq_put for room on the full queue
Blocked == prod_pc = "put"

\* C34: while ticks are to come, every sample on the queue is dequeued and
\* applied, button changes included, and a producer that waits for room
\* on the full queue gets it and puts its sample
QueueDrained ==
  /\ \A s \in Seqs : (Waiting(s) \/ Deferred(s)) ~> Applied(s)
  /\ (Blocked /\ TicksToCome(1)) ~>
       (prod_pc = "idle" /\ puts # <<>> /\ puts[Len(puts)] = PutEntry("put", nextSeq - 1, mu_input))

\* the producer found the queue full, got room and put its sample, which
\* has been applied after a tick that stopped draining at a button change
\* ahead of it
BlockedSampleApplied ==
  \E i \in DOMAIN puts :
    /\ puts[i].ev = "full"
    /\ Applied(puts[i].seq)
    /\ \E k \in EdgeEntries : log[k].seq < puts[i].seq

(***************************************************************************)
(* Properties of mu_anim_done and mu_anim_reset (PoolSpec).                *)
(***************************************************************************)
\* no slot changes hands and no animation state but that of slot idx changes
SlotsKept(idx) ==
  /\ \A i \in Slots : anim_pool'[i].id = anim_pool[i].id
  /\ \A i \in Slots \ {idx} : anim_states'[i] = anim_states[i]

\* the slot idx is stamped with the current frame and no other stamp changes
OnlyTouched(idx) ==
  /\ anim_pool'[idx].last_update = frame
  /\ \A i \in Slots \ {idx} : anim_pool'[i] = anim_pool[i]

\* mu_anim_reset rewinds the state of slot idx and changes nothing else of it
Rewound(idx) ==
  anim_states'[idx] = [anim_states[idx] EXCEPT !.start_time_ms = curr_time_ms,
                                               !.finished = 0,
                                               !.current = anim_states[idx].start]

\* what both calls do for an id without a slot: nothing
NoSlotNoChange == anim_pool' = anim_pool /\ anim_states' = anim_states

\* C35 as stated: mu_anim_done and mu_anim_reset leave the pool as it is,
\* stamps included; mu_anim_done returns true for an id without a slot and
\* changes no animation state, mu_anim_reset changes only start_time_ms,
\* finished and current of its id
DoneAndResetLeavePool ==
  [][\A id \in AnimIds :
       LET idx == mu_pool_get(anim_pool, id)
       IN  /\ mu_anim_done(id) =>
                /\ NoSlotNoChange
                /\ idx = 0 => anim_call'.ret = 1
           /\ mu_anim_reset(id) =>
                /\ anim_pool' = anim_pool
                /\ IF idx = 0 THEN NoSlotNoChange ELSE SlotsKept(idx) /\ Rewound(idx)]_vars

\* C35, amended: mu_anim_done and mu_anim_reset never claim or reclaim a
\* slot; without a slot for the id nothing changes and mu_anim_done returns
\* true; with a slot both stamp that slot, and only it, with the current
\* frame, mu_anim_done changes no animation state and returns finished,
\* mu_anim_reset changes only start_time_ms, finished and current of its id
DoneAndResetOnlyTouch ==
  [][\A id \in AnimIds :
       LET idx == mu_pool_get(anim_pool, id)
       IN  /\ mu_anim_done(id) =>
                IF idx = 0 THEN NoSlotNoChange /\ anim_call'.ret = 1
                ELSE /\ SlotsKept(idx) /\ OnlyTouched(idx)
                     /\ anim_states' = anim_states
                     /\ anim_call'.ret = (IF anim_states[idx].finished # 0 THEN 1 ELSE 0)
           /\ mu_anim_reset(id) =>
                IF idx = 0 THEN NoSlotNoChange
                ELSE SlotsKept(idx) /\ OnlyTouched(idx) /\ Rewound(idx)]_vars

\* mu_anim_done was asked about a running animation started in an earlier
\* frame, whose slot now carries the stamp of the current frame
DoneTouchedOlderSlot ==
  /\ anim_call.op = "mu_anim_done"
  /\ anim_call.ret = 0
  /\ \E i \in Slots :
       /\ anim_pool[i].id = anim_call.id
       /\ anim_pool[i].last_update = frame
       /\ anim_states[i].start_time_ms # curr_time_ms

(***************************************************************************)
(* Properties of animations without duration (InstantSpec).                *)
(***************************************************************************)
\* C36: a call of mu_anim_ex with duration_ms = 0 returns end, the first
\* call for the id included, and leaves a non-looping animation finished
InstantReturnsEnd ==
  [][(ExCall /\ anim_call'.duration_ms = 0) =>
       /\ anim_call'.ret = anim_call'.end
       /\ (~anim_call'.loop /\ SlotAfter > 0) => anim_states'[SlotAfter].finished = 1]_vars

(***************************************************************************)
(* Properties of filled rectangles (FillSpec).                             *)
(***************************************************************************)
\* C37: the row copy of renderer_draw_rect and of renderer_clear leaves the
\* buffer as writing every pixel of the screen-clamped rectangle with
\* set_pixel_unchecked would leave it, whatever the width of the display
RowCopyIsEachPixel ==
  last_op.op \in {"draw_rect", "clear"} =>
    fb = EachPixel(ZeroBuffer(display_width, pixel_format), display_width, pixel_format,
                   last_op.arg[1], last_op.arg[2], last_op.arg[3])

(***************************************************************************)
(* Properties of the addresses of pixel writes (MonoSpec).                 *)
(***************************************************************************)
\* C39: every framebuffer write of a primitive addresses a pixel of the
\* display, so that no store falls outside display_buffer
WritesInsideBuffer ==
  last_op.op = "draw_rect_mono" =>
    \A o \in last_op.ret : o >= 0 /\ o < MONO_BUFFER_SIZE(display_width)

(***************************************************************************)
(* Properties of the width encodings (FlexSpec).                           *)
(***************************************************************************)
\* C40 as stated: every weight x >= 0 is a flex entry once encoded and
\* decodes to x; positive fixed widths, 0 and -1 are no flex entries; every
\* flex entry decodes to a weight of at least 1
EncodingsRoundTrip ==
  /\ last_op.op = "MU_FLEX" =>
       ~last_op.ret.trap /\ last_op.ret.is_flex /\ last_op.ret.weight = last_op.arg
  /\ (last_op.op = "entry" /\ last_op.arg >= 0 - 1) => ~last_op.ret.is_flex
  /\ (last_op.op = "entry" /\ last_op.ret.is_flex) =>
       ~last_op.ret.trap /\ last_op.ret.weight >= 1

\* C40: every weight x from 0 to INT_MAX - 0x10000 is a flex entry once
\* encoded and decodes to x; positive fixed widths, 0 and -1 are no flex
\* entries; every flex entry between INT_MIN and MU_FLEX_BASE decodes to a
\* weight of at least 1, and MU_FLEX_BASE itself is a flex entry of weight 0
EncodingsRoundTripInRange ==
  /\ (last_op.op = "MU_FLEX" /\ last_op.arg <= INT_MAX + MU_FLEX_BASE) =>
       ~last_op.ret.trap /\ last_op.ret.is_flex /\ last_op.ret.weight = last_op.arg
  /\ (last_op.op = "entry" /\ last_op.arg >= 0 - 1) => ~last_op.ret.is_flex
  /\ (last_op.op = "entry" /\ last_op.arg < MU_FLEX_BASE /\ last_op.arg > INT_MIN) =>
       ~last_op.ret.trap /\ last_op.ret.is_flex /\ last_op.ret.weight >= 1
  /\ (last_op.op = "entry" /\ last_op.arg = MU_FLEX_BASE) =>
       ~last_op.ret.trap /\ last_op.ret.is_flex /\ last_op.ret.weight = 0

\* the largest weight that round-trips is encoded as INT_MIN + 1 and decoded
LargestWeightRoundTrips ==
  /\ last_op.op = "MU_FLEX"
  /\ last_op.arg = INT_MAX + MU_FLEX_BASE
  /\ last_op.ret.w = INT_MIN + 1
  /\ last_op.ret.is_flex
  /\ last_op.ret.weight = last_op.arg

====
